---- MODULE Spec2Model ----
(***************************************************************************)
(* Model of the geolocation lookup engine of oarkflow/ip (package geoip):  *)
(* the binary trie with longest-prefix match, the CIDR range validator,    *)
(* the string table, CSV ingestion, the binary cache codec and the public  *)
(* lookup calls.                                                           *)
(*                                                                         *)
(* Addresses are bit sequences.  The address widths (32 and 128 bits in    *)
(* the program) and the width of a string index (uint16 in the program)    *)
(* are scaled down; every other step follows the source.                   *)
(***************************************************************************)
EXTENDS Integers, Sequences, FiniteSets, TLC

VARIABLES
    g,          \* defaultGeo: the IPGeo (stringTable, trieV4, trieV6)
    cacheFile,  \* the cache file on disk: [exists, data]
    cacheOfG,   \* history: cacheFile was written by SaveCache from the current g
    trieV4,     \* gob variant: global IPv4 trie
    trieV6,     \* gob variant: global IPv6 trie
    root,       \* a trie under construction (insertTrie / lookupTrie)
    maxBits,    \* the address width of root's family
    inserted,   \* history: prefix -> record of the latest insertTrie at it
    handed,     \* history: string -> the index its first GetIndex call returned
    ingested,   \* history: LoadDBIP has been called on g
    csv,        \* history: the records of the CSV file an ingestion has read
    env,        \* what init finds: marker file, CSV files, snapshots, the network
    boot,       \* the progress of init: phase, and history of the steps it took
    filter,     \* package ip: the package-level *Filter
    middlewares,\* package ip: the handlers NewFilter has returned, with what each captured
    headers,    \* the request FromHeader reads: the header values and the client IP
    callers,    \* goroutines inside GetIndex / GetString: position and locals
    start,      \* computePrefixLen input
    end,        \* computePrefixLen input
    res         \* the result of the latest call

geoVars == <<g, cacheFile, cacheOfG, ingested, csv>>

gobVars == <<trieV4, trieV6>>

trieVars == <<root, maxBits, inserted>>

cidrVars == <<start, end>>

bootVars == <<env, boot>>

reqVars == <<filter, middlewares, headers, callers>>

vars == <<geoVars, gobVars, trieVars, cidrVars, bootVars, reqVars, handed, res>>

----------------------------------------------------------------------------
(* Bounds of the model *)

\* width of an IPv4 address in bits (32 in the program)
V4Bits == 2
\* width of an IPv6 address in bits (128 in the program)
V6Bits == 3
\* number of values of a string index (uint16: 65536 in the program)
IdxMod == 4
\* insertTrie calls on one trie
MaxInserts == 3
\* rows of a CSV file
MaxRows == 2
\* goroutines that call GetIndex and GetString at the same time
MaxCallers == 2
\* single-IP and subnet entries of a Filter
MaxEntries == 2
\* calls of NewFilter
MaxFilters == 2
\* comma-separated addresses in one header value
MaxTokens == 2
\* starts of the process, and calendar months they fall in
MaxStartups == 3
MaxMonths == 2

----------------------------------------------------------------------------
(* net.IP: a byte slice, here a sequence of bits.  Length 0 is the nil IP, *)
(* V4Bits the 4-byte form, V6Bits the 16-byte form; any other length is a  *)
(* slice that is no address.                                               *)

Bit == {0, 1}

BitSeqs(n) == [1..n -> Bit]

NilIP == <<>>

\* the 12-byte prefix of an IPv4-mapped IPv6 address (zeros, then ones)
v4InV6Prefix == [i \in 1..(V6Bits - V4Bits) |-> IF i = V6Bits - V4Bits THEN 1 ELSE 0]

\* slices of a length that is neither 4 nor 16 bytes
BadLenIPs == BitSeqs(1)

IPv4Len == BitSeqs(V4Bits)

IPv6Len == BitSeqs(V6Bits)

AllIPs == {NilIP} \cup BadLenIPs \cup IPv4Len \cup IPv6Len

\* net.IP.To4: the 4-byte form of an IPv4 or IPv4-mapped address, else nil
To4(ip) ==
    IF Len(ip) = V4Bits THEN ip
    ELSE IF Len(ip) = V6Bits /\ SubSeq(ip, 1, V6Bits - V4Bits) = v4InV6Prefix
         THEN SubSeq(ip, V6Bits - V4Bits + 1, V6Bits)
         ELSE NilIP

\* net.IP.To16: the 16-byte form, or nil for a slice of another length
To16(ip) ==
    IF Len(ip) = V4Bits THEN v4InV6Prefix \o ip
    ELSE IF Len(ip) = V6Bits THEN ip
    ELSE NilIP

IsV4(ip) == To4(ip) # NilIP

\* addresses as callers hold them after normalisation
PureV6 == {ip \in IPv6Len : ~IsV4(ip)}

ValidIPs == IPv4Len \cup IPv6Len

\* getBit indexes the slice it chose: out of range is a run-time panic
getBitPanics(ip, i) ==
    IF To4(ip) # NilIP THEN i >= Len(To4(ip))
    ELSE i >= Len(To16(ip))

\* getBit(ip, i), i = 0 the most significant bit; defined when it does not panic
getBit(ip, i) ==
    IF To4(ip) # NilIP THEN To4(ip)[i + 1]
    ELSE To16(ip)[i + 1]

----------------------------------------------------------------------------
(* computePrefixLen *)

Panic == [kind |-> "panic", p |-> 0]

RECURSIVE cplScan(_, _, _, _)
\* first loop: the first bit where start and end differ
cplScan(s, e, mb, i) ==
    IF i >= mb THEN [kind |-> "ok", p |-> i]
    ELSE IF getBitPanics(s, i) \/ getBitPanics(e, i) THEN Panic
    ELSE IF getBit(s, i) # getBit(e, i) THEN [kind |-> "ok", p |-> i]
    ELSE cplScan(s, e, mb, i + 1)

RECURSIVE cplVerify(_, _, _, _, _)
\* second loop: start has zeros and end has ones in the remaining bits
cplVerify(s, e, mb, i, p) ==
    IF i >= mb THEN [kind |-> "ok", p |-> p]
    ELSE IF getBitPanics(s, i) THEN Panic
    ELSE IF getBit(s, i) # 0 THEN [kind |-> "err", p |-> 0]
    ELSE IF getBitPanics(e, i) THEN Panic
    ELSE IF getBit(e, i) # 1 THEN [kind |-> "err", p |-> 0]
    ELSE cplVerify(s, e, mb, i + 1, p)

\* a plausible slip: the broadcast check on end is left out
cplVerifyStartOnly(s, e, mb, i, p) ==
    IF \E j \in i..(mb - 1) : getBitPanics(s, j) THEN Panic
    ELSE IF \E j \in i..(mb - 1) : getBit(s, j) # 0 THEN [kind |-> "err", p |-> 0]
    ELSE [kind |-> "ok", p |-> p]

computePrefixLenNoEndCheck(s0, e0) ==
    LET s == IF To4(s0) # NilIP THEN To4(s0) ELSE s0
        e == IF To4(e0) # NilIP THEN To4(e0) ELSE e0
        mb == IF To4(s) # NilIP THEN V4Bits ELSE V6Bits
        scan == cplScan(s, e, mb, 0)
    IN  IF scan.kind = "panic" THEN Panic
        ELSE cplVerifyStartOnly(s, e, mb, scan.p, scan.p)

computePrefixLen(s0, e0) ==
    LET s == IF To4(s0) # NilIP THEN To4(s0) ELSE s0
        e == IF To4(e0) # NilIP THEN To4(e0) ELSE e0
        mb == IF To4(s) # NilIP THEN V4Bits ELSE V6Bits
        scan == cplScan(s, e, mb, 0)
    IN  IF scan.kind = "panic" THEN Panic
        ELSE cplVerify(s, e, mb, scan.p, scan.p)

----------------------------------------------------------------------------
(* The trie.  A trie is a function from the bit paths of its nodes to the  *)
(* node's Record pointer: <<>> is a nil pointer, <<r>> points to r.  A     *)
(* child exists when its path is in the domain; the nil root is the empty  *)
(* function.                                                               *)

NoRec == <<>>

NilTrie == [p \in {} |-> NoRec]

\* &TrieNode{}
EmptyRoot == [p \in {<<>>} |-> NoRec]

RECURSIVE insertLoop(_, _, _, _, _, _)
insertLoop(t, ip, prefixLen, record, i, node) ==
    IF i >= prefixLen THEN [panic |-> FALSE, t |-> [t EXCEPT ![node] = <<record>>]]
    ELSE IF getBitPanics(ip, i) THEN [panic |-> TRUE, t |-> t]
    ELSE LET child == Append(node, getBit(ip, i))
             t2 == IF child \in DOMAIN t THEN t ELSE t @@ (child :> NoRec)
         IN  insertLoop(t2, ip, prefixLen, record, i + 1, child)

RECURSIVE insertLoopKeepFirst(_, _, _, _, _, _)
\* a plausible slip: a record already attached to the node is kept
insertLoopKeepFirst(t, ip, prefixLen, record, i, node) ==
    IF i >= prefixLen
    THEN [panic |-> FALSE, t |-> IF t[node] # NoRec THEN t ELSE [t EXCEPT ![node] = <<record>>]]
    ELSE IF getBitPanics(ip, i) THEN [panic |-> TRUE, t |-> t]
    ELSE LET child == Append(node, getBit(ip, i))
             t2 == IF child \in DOMAIN t THEN t ELSE t @@ (child :> NoRec)
         IN  insertLoopKeepFirst(t2, ip, prefixLen, record, i + 1, child)

insertTrieKeepFirst(t, ip, prefixLen, record) ==
    insertLoopKeepFirst(t, ip, prefixLen, record, 0, <<>>)

RECURSIVE insertLoopMarkPath(_, _, _, _, _, _)
\* a plausible slip: the record is attached to every node the walk passes
insertLoopMarkPath(t, ip, prefixLen, record, i, node) ==
    IF i >= prefixLen THEN [panic |-> FALSE, t |-> [t EXCEPT ![node] = <<record>>]]
    ELSE IF getBitPanics(ip, i) THEN [panic |-> TRUE, t |-> t]
    ELSE LET child == Append(node, getBit(ip, i))
             t2 == IF child \in DOMAIN t THEN t ELSE t @@ (child :> NoRec)
         IN  insertLoopMarkPath([t2 EXCEPT ![node] = <<record>>], ip, prefixLen, record,
                                i + 1, child)

insertTrieMarkPath(t, ip, prefixLen, record) ==
    insertLoopMarkPath(t, ip, prefixLen, record, 0, <<>>)

insertTrie(t, ip, prefixLen, record) == insertLoop(t, ip, prefixLen, record, 0, <<>>)

RECURSIVE lookupLoop(_, _, _, _, _, _)
lookupLoop(t, ip, mb, i, node, result) ==
    IF i >= mb THEN [panic |-> FALSE, rec |-> result]
    ELSE IF node \notin DOMAIN t THEN [panic |-> FALSE, rec |-> result]
    ELSE LET r2 == IF t[node] # NoRec THEN t[node] ELSE result
         IN  IF getBitPanics(ip, i) THEN [panic |-> TRUE, rec |-> NoRec]
             ELSE lookupLoop(t, ip, mb, i + 1, Append(node, getBit(ip, i)), r2)

\* the record pointer of the longest matching prefix the loop visits
lookupTrie(t, ip, mb) == lookupLoop(t, ip, mb, 0, <<>>, NoRec)

----------------------------------------------------------------------------
(* Strings are sequences of character codes. *)

EmptyStr == <<>>

StrUS == <<85, 83>>

StrNP == <<78, 80>>

StrNepal == <<78, 101>>

StrBagmati == <<66>>

StrKtm == <<75>>

Labels == {StrUS, StrNP, StrNepal, StrBagmati, StrKtm}

----------------------------------------------------------------------------
(* StringTable *)

NoLookup == [s \in {} |-> 0]

NewStringTable == [strings |-> <<EmptyStr>>, lookup |-> NoLookup]

\* uint16(n)
Uint16(n) == n % IdxMod

\* a plausible slip: the double-check of the map is left out and the string appended again
GetIndexAlwaysAppend(st, s) ==
    IF s = EmptyStr THEN [idx |-> 0, st |-> st]
    ELSE LET idx == Uint16(Len(st.strings))
         IN  [idx |-> idx,
              st |-> [strings |-> Append(st.strings, s),
                      lookup |-> [x \in DOMAIN st.lookup \cup {s} |->
                                     IF x = s THEN idx ELSE st.lookup[x]]]]

\* StringTable.GetIndex: the index returned and the table after the call
GetIndex(st, s) ==
    IF s = EmptyStr THEN [idx |-> 0, st |-> st]
    ELSE IF s \in DOMAIN st.lookup THEN [idx |-> st.lookup[s], st |-> st]
    ELSE LET idx == Uint16(Len(st.strings))
         IN  [idx |-> idx,
              st |-> [strings |-> Append(st.strings, s),
                      lookup |-> [x \in DOMAIN st.lookup \cup {s} |->
                                     IF x = s THEN idx ELSE st.lookup[x]]]]

\* StringTable.GetString
GetString(st, idx) ==
    IF idx >= Len(st.strings) THEN EmptyStr ELSE st.strings[idx + 1]

----------------------------------------------------------------------------
(* TrieRecord, IPGeo *)

TrieRecord(cc, country, region, city, lat, lng) ==
    [CountryCode |-> cc, Country |-> country, Region |-> region, City |-> city,
     Lat |-> lat, Lng |-> lng]

\* New()
New == [stringTable |-> NewStringTable, trieV4 |-> NilTrie, trieV6 |-> NilTrie]

NoFile == [exists |-> FALSE, data |-> <<>>]

NoRes == [op |-> "none"]

NoHistory == [n |-> 0, last |-> [p \in {} |-> NoRec]]

\* the parts of the state a specification does not use stay as constructed
GeoIdle == g = New /\ cacheFile = NoFile /\ cacheOfG = FALSE /\ ingested = FALSE /\ csv = <<>>

GobIdle == trieV4 = NilTrie /\ trieV6 = NilTrie

TrieIdle == root = EmptyRoot /\ maxBits = V4Bits /\ inserted = NoHistory

CIDRIdle == start = NilIP /\ end = NilIP

NoEnv == [marker |-> "absent"]

NoBoot == [phase |-> "START"]

BootIdle == env = NoEnv /\ boot = NoBoot

\* var filter = &Filter{ips: map[string]bool{}, codes: map[string]bool{}}
PackageFilter ==
    [ips |-> [k \in {} |-> FALSE], codes |-> [k \in {} |-> FALSE], subnets |-> <<>>,
     defaultAllowed |-> FALSE]

NoHeaders == [clientIP |-> <<>>]

\* sync.RWMutex: the number of readers inside, and whether a writer is inside
NoLock == [readers |-> 0, writer |-> FALSE]

NoCallers == [mu |-> NoLock, run |-> [c \in {} |-> 0]]

ReqIdle ==
    filter = PackageFilter /\ middlewares = <<>> /\ headers = NoHeaders /\ callers = NoCallers

----------------------------------------------------------------------------
(* computePrefixLen applied to a pair of addresses *)

InitCIDR ==
    /\ start \in ValidIPs
    /\ end \in ValidIPs
    /\ res = NoRes
    /\ GeoIdle /\ GobIdle /\ TrieIdle /\ ReqIdle
    /\ handed = NoLookup /\ BootIdle

ComputePrefixLen ==
    /\ res = NoRes
    /\ res' = [op |-> "computePrefixLen", out |-> computePrefixLen(start, end)]
    /\ UNCHANGED <<geoVars, gobVars, trieVars, cidrVars, reqVars, bootVars, handed>>

NextCIDR == ComputePrefixLen

SpecCIDR == InitCIDR /\ [][NextCIDR]_vars

----------------------------------------------------------------------------
(* insertTrie and lookupTrie on one trie *)

SampleRecs == {TrieRecord(1, 2, 0, 0, 1, 2), TrieRecord(3, 3, 1, 2, 0, 0)}

\* the addresses a trie of width mb is built from and queried with
FamilyIPs(mb) == IF mb = V4Bits THEN IPv4Len ELSE PureV6

InitTrie ==
    /\ maxBits \in {V4Bits, V6Bits}
    /\ root = EmptyRoot
    /\ inserted = NoHistory
    /\ res = NoRes
    /\ GeoIdle /\ GobIdle /\ CIDRIdle /\ ReqIdle
    /\ handed = NoLookup /\ BootIdle

\* bits 0..n-1 of ip
PrefixOf(ip, n) == SubSeq(IF IsV4(ip) THEN To4(ip) ELSE To16(ip), 1, n)

InsertTrie ==
    /\ inserted.n < MaxInserts
    /\ \E ip \in FamilyIPs(maxBits), n \in 0..maxBits, record \in SampleRecs :
          LET r == insertTrie(root, ip, n, record) IN
          /\ ~r.panic
          /\ root' = r.t
          /\ inserted' = [n |-> inserted.n + 1,
                          last |-> [p \in DOMAIN inserted.last \cup {PrefixOf(ip, n)} |->
                                      IF p = PrefixOf(ip, n) THEN <<record>>
                                      ELSE inserted.last[p]]]
          /\ res' = [op |-> "insertTrie", arg |-> ip, out |-> [panic |-> FALSE, rec |-> NoRec],
                     prefixLen |-> n, before |-> root]
    /\ UNCHANGED <<geoVars, gobVars, maxBits, cidrVars, reqVars, bootVars, handed>>

LookupTrie ==
    /\ \E ip \in FamilyIPs(maxBits) :
          res' = [op |-> "lookupTrie", arg |-> ip, out |-> lookupTrie(root, ip, maxBits)]
    /\ UNCHANGED <<geoVars, gobVars, trieVars, cidrVars, reqVars, bootVars, handed>>

NextTrie == InsertTrie \/ LookupTrie

SpecTrie == InitTrie /\ [][NextTrie]_vars

\* lookupTrie(root, ip, 128) called with a 4-byte address: the trie of the
\* 16-byte family is walked along the bits getBit takes from ip.To4()
LookupTrieShort ==
    /\ maxBits = V6Bits
    /\ \E ip \in IPv4Len :
          res' = [op |-> "lookupTrie", arg |-> ip, out |-> lookupTrie(root, ip, maxBits)]
    /\ UNCHANGED <<geoVars, gobVars, trieVars, cidrVars, reqVars, bootVars, handed>>

NextTrieAny == InsertTrie \/ LookupTrie \/ LookupTrieShort

\* the trie with lookups of addresses of either length
SpecTrieAny == InitTrie /\ [][NextTrieAny]_vars

----------------------------------------------------------------------------
(* Arithmetic on addresses, used to state the properties *)

RECURSIVE Pow2(_)
Pow2(n) == IF n = 0 THEN 1 ELSE 2 * Pow2(n - 1)

RECURSIVE Val(_)
\* the number a bit sequence denotes, most significant bit first
Val(b) == IF Len(b) = 0 THEN 0 ELSE 2 * Val(SubSeq(b, 1, Len(b) - 1)) + b[Len(b)]

\* the bits of an address in its own family
AddrBits(ip) == IF IsV4(ip) THEN To4(ip) ELSE To16(ip)

IsPrefix(p, b) == Len(p) <= Len(b) /\ SubSeq(b, 1, Len(p)) = p

\* the number of leading bits a and b share
SharedLeading(a, b) ==
    Cardinality({k \in 1..Len(a) : \A j \in 1..k : a[j] = b[j]})

\* [s, e] is exactly the block s/p: s is aligned and e = s | (2^(bits-p) - 1)
IsExactCIDR(s, e, p) ==
    /\ Val(s) % Pow2(Len(s) - p) = 0
    /\ Val(e) = Val(s) + Pow2(Len(s) - p) - 1

----------------------------------------------------------------------------
(* Properties of the trie (SpecTrie) *)

\* the inserted prefixes that contain address ip
Covering(ip) == {p \in DOMAIN inserted.last : IsPrefix(p, AddrBits(ip))}

\* C1: longest-prefix match.  For inserted prefixes P1, P2 with P1 shorter than
\* P2 and P2 inside P1, lookupTrie of an address inside P2 (whose longest
\* inserted prefix is P2) returns the record inserted at P2, for every length
\* of P2 up to and including the full address width.
C1_LongestPrefixMatch ==
    res.op = "lookupTrie" =>
        \A p1, p2 \in Covering(res.arg) :
            (/\ Len(p1) < Len(p2)
             /\ \A q \in Covering(res.arg) : Len(q) <= Len(p2))
            => (~res.out.panic /\ res.out.rec = inserted.last[p2])

\* the same for prefixes shorter than the full address width
LPMBelowFullWidth ==
    res.op = "lookupTrie" =>
        \A p2 \in Covering(res.arg) :
            (/\ Len(p2) < maxBits
             /\ \A q \in Covering(res.arg) : Len(q) <= Len(p2))
            => (~res.out.panic /\ res.out.rec = inserted.last[p2])

----------------------------------------------------------------------------
(* Properties of computePrefixLen (SpecCIDR) *)

SameFamily(a, b) == IsV4(a) = IsV4(b)

\* C2: for two addresses of one family computePrefixLen returns p without error
\* exactly when start is aligned at p and end = start | (2^(bits-p) - 1); p is
\* then the number of leading bits start and end share; every other pair,
\* start > end included, is rejected with an error.
C2_CIDRSoundness ==
    (res.op = "computePrefixLen" /\ SameFamily(start, end)) =>
        LET s == AddrBits(start)
            e == AddrBits(end)
        IN  /\ res.out.kind \in {"ok", "err"}
            /\ (res.out.kind = "ok") <=> (\E p \in 0..Len(s) : IsExactCIDR(s, e, p))
            /\ res.out.kind = "ok" =>
                  /\ IsExactCIDR(s, e, res.out.p)
                  /\ res.out.p = SharedLeading(s, e)
            /\ Val(s) > Val(e) => res.out.kind = "err"

\* a proper block (neither a single address nor the whole space) was accepted
C2_Witness ==
    /\ res.op = "computePrefixLen"
    /\ SameFamily(start, end)
    /\ res.out.kind = "ok"
    /\ res.out.p > 0
    /\ res.out.p < Len(AddrBits(start))

\* C3: a pair of different families is rejected with an error: no prefix
\* length is returned and the call does not panic.
C3_MixedFamiliesRejected ==
    (res.op = "computePrefixLen" /\ ~SameFamily(start, end)) => res.out.kind = "err"

\* the two ways the code departs from C3
C3_MixedNeverAccepted ==
    (res.op = "computePrefixLen" /\ ~SameFamily(start, end)) => res.out.kind # "ok"

C3_MixedNeverPanics ==
    (res.op = "computePrefixLen" /\ ~SameFamily(start, end)) => res.out.kind # "panic"

----------------------------------------------------------------------------
(* GetIndex and GetString called on the string table of g *)

InitST ==
    /\ g = New
    /\ handed = NoLookup /\ BootIdle
    /\ res = NoRes
    /\ cacheFile = NoFile /\ cacheOfG = FALSE /\ ingested = FALSE /\ csv = <<>>
    /\ GobIdle /\ TrieIdle /\ CIDRIdle /\ ReqIdle

CallGetIndex ==
    /\ \E s \in Labels \cup {EmptyStr} :
          LET r == GetIndex(g.stringTable, s) IN
          /\ g' = [g EXCEPT !.stringTable = r.st]
          /\ handed' = IF s \in DOMAIN handed THEN handed
                       ELSE [x \in DOMAIN handed \cup {s} |->
                               IF x = s THEN r.idx ELSE handed[x]]
          /\ res' = [op |-> "GetIndex", arg |-> s, out |-> r.idx,
                     again |-> s \in DOMAIN handed, before |-> g.stringTable]
    /\ UNCHANGED <<cacheFile, cacheOfG, ingested, csv, gobVars, trieVars, cidrVars, reqVars, bootVars>>

CallGetString ==
    /\ \E idx \in 0..(IdxMod - 1) :
          res' = [op |-> "GetString", arg |-> idx, out |-> GetString(g.stringTable, idx),
                  again |-> FALSE, before |-> g.stringTable]
    /\ UNCHANGED <<geoVars, gobVars, trieVars, cidrVars, reqVars, bootVars, handed>>

NextST == CallGetIndex \/ CallGetString

SpecST == InitST /\ [][NextST]_vars

----------------------------------------------------------------------------
(* Properties of the string table (SpecST) *)

\* C6: a GetIndex call with a string that was interned by an earlier call
\* returns the index the first call returned and leaves the table as it was;
\* GetIndex("") returns 0, leaves the table as it was and "" is no lookup key.
C6_InterningIdempotent ==
    res.op = "GetIndex" =>
        /\ res.again =>
              /\ res.out = handed[res.arg]
              /\ g.stringTable = res.before
        /\ res.arg = EmptyStr =>
              /\ res.out = 0
              /\ g.stringTable = res.before
              /\ EmptyStr \notin DOMAIN g.stringTable.lookup

\* a non-empty string was interned a second time after other strings
C6_Witness ==
    /\ res.op = "GetIndex"
    /\ res.again
    /\ res.arg # EmptyStr
    /\ Len(g.stringTable.strings) > 2
    /\ res.out = 1

\* the non-empty strings interned so far
Interned == DOMAIN handed \ {EmptyStr}

CanonicalAt(s) ==
    LET i == GetIndex(g.stringTable, s).idx
    IN  /\ GetString(g.stringTable, i) = s
        /\ i # 0
        /\ \A t \in Interned \ {s} : GetIndex(g.stringTable, t).idx # i

\* C7: after any sequence of GetIndex calls every index in use has one
\* canonical string: GetString(GetIndex(s)) = s for every non-empty string
\* interned so far, no two strings share an index, none has index 0.
C7_OneCanonicalString == \A s \in Interned : CanonicalAt(s)

\* the same while the table holds no more strings than an index can number
CanonicalWithinIndexRange ==
    Len(g.stringTable.strings) <= IdxMod => \A s \in Interned : CanonicalAt(s)

----------------------------------------------------------------------------
(* Text fields of a CSV row.  An address text is a dotted IPv4 text, an     *)
(* IPv6 text or a text that is no address; a number text either parses to   *)
(* a value or does not.                                                     *)

V4Text(b) == [fam |-> "v4", bits |-> b]

V6Text(b) == [fam |-> "v6", bits |-> b]

BadText == [fam |-> "bad", bits |-> <<>>]

IPTexts == {V4Text(b) : b \in IPv4Len} \cup {V6Text(b) : b \in IPv6Len} \cup {BadText}

\* net.ParseIP: the 16-byte form (also for an IPv4 text), nil for no address
ParseIP(t) ==
    IF t.fam = "v4" THEN v4InV6Prefix \o t.bits
    ELSE IF t.fam = "v6" THEN t.bits
    ELSE NilIP

Num(n) == [ok |-> TRUE, v |-> n]

NotANumber == [ok |-> FALSE, v |-> 0]

\* strconv.ParseFloat: the value, and 0 with an error for a text that is no number
ParseFloat(t) == IF t.ok THEN [v |-> t.v, err |-> FALSE] ELSE [v |-> 0, err |-> TRUE]

Zeros(n) == [i \in 1..n |-> 0]

Ones(n) == [i \in 1..n |-> 1]

----------------------------------------------------------------------------
(* LoadDBIP: the rows of the CSV are ingested in file order *)

\* a plausible slip: a row with too few columns ends the ingestion
LoadRowShortFatal(acc, rec) ==
    IF acc.panic THEN acc
    ELSE IF Len(rec) < 8 THEN [acc EXCEPT !.panic = TRUE]
    ELSE LET cc == GetIndex(acc.st, rec[3])
             country == GetIndex(cc.st, rec[4])
             region == GetIndex(country.st, rec[5])
             city == GetIndex(region.st, rec[6])
             sip == ParseIP(rec[1])
             eip == ParseIP(rec[2])
             acc1 == [acc EXCEPT !.st = city.st]
         IN  IF sip = NilIP \/ eip = NilIP THEN acc1
             ELSE LET pl == computePrefixLen(sip, eip)
                      record == TrieRecord(cc.idx, country.idx, region.idx, city.idx,
                                           ParseFloat(rec[7]).v, ParseFloat(rec[8]).v)
                  IN  IF pl.kind = "panic" THEN [acc1 EXCEPT !.panic = TRUE]
                      ELSE IF pl.kind = "err" THEN acc1
                      ELSE IF To4(sip) # NilIP
                           THEN LET r == insertTrie(acc1.v4, To4(sip), pl.p, record)
                                IN  [acc1 EXCEPT !.v4 = r.t, !.panic = r.panic]
                           ELSE LET r == insertTrie(acc1.v6, sip, pl.p, record)
                                IN  [acc1 EXCEPT !.v6 = r.t, !.panic = r.panic]

\* one row of LoadDBIP's loop, on the state [st, v4, v6, panic]
LoadRow(acc, rec) ==
    IF acc.panic THEN acc
    ELSE IF Len(rec) < 8 THEN acc
    ELSE LET cc == GetIndex(acc.st, rec[3])
             country == GetIndex(cc.st, rec[4])
             region == GetIndex(country.st, rec[5])
             city == GetIndex(region.st, rec[6])
             lat == ParseFloat(rec[7]).v
             lng == ParseFloat(rec[8]).v
             sip == ParseIP(rec[1])
             eip == ParseIP(rec[2])
             acc1 == [acc EXCEPT !.st = city.st]
         IN  IF sip = NilIP \/ eip = NilIP THEN acc1
             ELSE LET pl == computePrefixLen(sip, eip)
                      record == TrieRecord(cc.idx, country.idx, region.idx, city.idx, lat, lng)
                  IN  IF pl.kind = "panic" THEN [acc1 EXCEPT !.panic = TRUE]
                      ELSE IF pl.kind = "err" THEN acc1
                      ELSE IF To4(sip) # NilIP
                           THEN LET r == insertTrie(acc1.v4, To4(sip), pl.p, record)
                                IN  [acc1 EXCEPT !.v4 = r.t, !.panic = r.panic]
                           ELSE LET r == insertTrie(acc1.v6, sip, pl.p, record)
                                IN  [acc1 EXCEPT !.v6 = r.t, !.panic = r.panic]

RECURSIVE LoadRows(_, _, _)
LoadRows(acc, records, i) ==
    IF i > Len(records) THEN acc
    ELSE LoadRows(LoadRow(acc, records[i]), records, i + 1)

\* IPGeo.LoadDBIP on the parsed records of the file: the IPGeo after the call
\* and whether the call panicked (the tries are then not replaced)
LoadDBIP(gg, records) ==
    LET acc == LoadRows([st |-> gg.stringTable, v4 |-> EmptyRoot, v6 |-> EmptyRoot,
                         panic |-> FALSE], records, 1)
    IN  IF acc.panic
        THEN [panic |-> TRUE, g |-> [gg EXCEPT !.stringTable = acc.st]]
        ELSE [panic |-> FALSE,
              g |-> [stringTable |-> acc.st, trieV4 |-> acc.v4, trieV6 |-> acc.v6]]

----------------------------------------------------------------------------
(* The lookup calls *)

NotFound ==
    [panic |-> FALSE, CountryCode |-> EmptyStr, Country |-> EmptyStr, Region |-> EmptyStr,
     City |-> EmptyStr, Latitude |-> 0, Longitude |-> 0, Found |-> FALSE]

Panicked == [NotFound EXCEPT !.panic = TRUE]

Resolved(gg, r) ==
    IF r.panic THEN Panicked
    ELSE IF r.rec # NoRec
    THEN [panic |-> FALSE,
          CountryCode |-> GetString(gg.stringTable, r.rec[1].CountryCode),
          Country |-> GetString(gg.stringTable, r.rec[1].Country),
          Region |-> GetString(gg.stringTable, r.rec[1].Region),
          City |-> GetString(gg.stringTable, r.rec[1].City),
          Latitude |-> r.rec[1].Lat, Longitude |-> r.rec[1].Lng, Found |-> TRUE]
    ELSE NotFound

\* (*IPGeo).Lookup
IPGeoLookup(gg, ip) ==
    IF To4(ip) # NilIP THEN Resolved(gg, lookupTrie(gg.trieV4, To4(ip), V4Bits))
    ELSE Resolved(gg, lookupTrie(gg.trieV6, To16(ip), V6Bits))

\* LookupNetIP, on defaultGeo
LookupNetIP(gg, ip) == IPGeoLookup(gg, ip)

\* Lookup(ipStr)
Lookup(gg, ipStr) ==
    IF ParseIP(ipStr) = NilIP THEN NotFound ELSE LookupNetIP(gg, ParseIP(ipStr))

\* countryByIP: the string returned, and whether the call panicked
countryByIP(gg, ip) ==
    IF ip = NilIP THEN [panic |-> FALSE, s |-> EmptyStr]
    ELSE LET record == LookupNetIP(gg, ip)
         IN  IF record.panic THEN [panic |-> TRUE, s |-> EmptyStr]
             ELSE IF ~record.Found THEN [panic |-> FALSE, s |-> EmptyStr]
             ELSE [panic |-> FALSE, s |-> record.Country]

Country(gg, ipStr) == countryByIP(gg, ParseIP(ipStr))

CountryByIP(gg, ip) == countryByIP(gg, ip)

----------------------------------------------------------------------------
(* The cache file: a sequence of units.  A character of the header or of a  *)
(* string is one unit; a uint32 written by binary.Write is one unit; the    *)
(* gob stream of a trie is the sequence of field deltas, values and struct  *)
(* terminators of its nodes and records.                                    *)

cacheVersion == 2

\* "IPGEO_CACHE"
cacheHeader == <<73, 80, 71, 69, 79, 95, 67, 65, 67, 72, 69>>

ZeroRecord == TrieRecord(0, 0, 0, 0, 0, 0)

\* the fields of a TrieRecord in declaration order
RecordFields(r) == <<r.CountryCode, r.Country, r.Region, r.City, r.Lat, r.Lng>>

RECURSIVE gobEncodeFields(_, _, _)
\* gob sends a struct as (field delta, value) pairs, omits zero fields and ends with 0
gobEncodeFields(vals, i, prev) ==
    IF i > Len(vals) THEN <<0>>
    ELSE IF vals[i] = 0 THEN gobEncodeFields(vals, i + 1, prev)
    ELSE <<(i - 1) - prev, vals[i]>> \o gobEncodeFields(vals, i + 1, i - 1)

gobEncodeRecord(r) == gobEncodeFields(RecordFields(r), 1, -1)

RECURSIVE gobEncodeNode(_, _)
\* a TrieNode: Left (field 0), Right (field 1), Record (field 2); nil pointers are omitted
gobEncodeNode(t, path) ==
    LET l == Append(path, 0)
        r == Append(path, 1)
        hasL == l \in DOMAIN t
        hasR == r \in DOMAIN t
        prevR == IF hasL THEN 0 ELSE -1
        prevRec == IF hasR THEN 1 ELSE prevR
    IN  (IF hasL THEN <<1>> \o gobEncodeNode(t, l) ELSE <<>>)
        \o (IF hasR THEN <<1 - prevR>> \o gobEncodeNode(t, r) ELSE <<>>)
        \o (IF t[path] # NoRec THEN <<2 - prevRec>> \o gobEncodeRecord(t[path][1]) ELSE <<>>)
        \o <<0>>

RECURSIVE WriteStrings(_, _)
WriteStrings(strings, i) ==
    IF i > Len(strings) THEN <<>>
    ELSE <<Len(strings[i])>> \o strings[i] \o WriteStrings(strings, i + 1)

\* a plausible slip: the second Encode call is given trieV4 again
SaveCacheV4Twice(gg) ==
    LET head == cacheHeader \o <<cacheVersion>>
                \o <<Len(gg.stringTable.strings)>> \o WriteStrings(gg.stringTable.strings, 1)
    IN  IF gg.trieV4 = NilTrie THEN [err |-> "gob: cannot encode nil pointer", data |-> head]
        ELSE [err |-> "",
              data |-> head \o gobEncodeNode(gg.trieV4, <<>>) \o gobEncodeNode(gg.trieV4, <<>>)]

\* (*IPGeo).SaveCache: the bytes that reach the file and the error returned.
\* encoder.Encode of a nil *TrieNode fails; what was written before is flushed.
SaveCache(gg) ==
    LET head == cacheHeader \o <<cacheVersion>>
                \o <<Len(gg.stringTable.strings)>> \o WriteStrings(gg.stringTable.strings, 1)
    IN  IF gg.trieV4 = NilTrie THEN [err |-> "gob: cannot encode nil pointer", data |-> head]
        ELSE IF gg.trieV6 = NilTrie
        THEN [err |-> "gob: cannot encode nil pointer",
              data |-> head \o gobEncodeNode(gg.trieV4, <<>>)]
        ELSE [err |-> "",
              data |-> head \o gobEncodeNode(gg.trieV4, <<>>) \o gobEncodeNode(gg.trieV6, <<>>)]

SetField(r, f, v) ==
    IF f = 0 THEN [r EXCEPT !.CountryCode = v]
    ELSE IF f = 1 THEN [r EXCEPT !.Country = v]
    ELSE IF f = 2 THEN [r EXCEPT !.Region = v]
    ELSE IF f = 3 THEN [r EXCEPT !.City = v]
    ELSE IF f = 4 THEN [r EXCEPT !.Lat = v]
    ELSE [r EXCEPT !.Lng = v]

RECURSIVE gobDecodeRecord(_, _, _, _)
\* decodes the fields sent into rec; a field that was not sent keeps its value
gobDecodeRecord(data, pos, rec, prev) ==
    IF pos > Len(data) THEN [ok |-> FALSE, pos |-> pos, rec |-> rec]
    ELSE IF data[pos] = 0 THEN [ok |-> TRUE, pos |-> pos + 1, rec |-> rec]
    ELSE IF prev + data[pos] > 5 \/ pos + 1 > Len(data)
         THEN [ok |-> FALSE, pos |-> pos, rec |-> rec]
    ELSE gobDecodeRecord(data, pos + 2, SetField(rec, prev + data[pos], data[pos + 1]),
                         prev + data[pos])

\* the trie with a node allocated at path, if there was none
Alloc(t, path) == IF path \in DOMAIN t THEN t ELSE t @@ (path :> NoRec)

RECURSIVE gobDecodeNode(_, _, _, _, _)
\* decodes a TrieNode into the node at path: pointers are allocated when nil,
\* an existing node or record is decoded into
gobDecodeNode(data, pos, t, path, prev) ==
    IF pos > Len(data) THEN [ok |-> FALSE, pos |-> pos, t |-> t]
    ELSE IF data[pos] = 0 THEN [ok |-> TRUE, pos |-> pos + 1, t |-> t]
    ELSE LET field == prev + data[pos] IN
         IF field \in {0, 1}
         THEN LET child == Append(path, field)
                  r == gobDecodeNode(data, pos + 1, Alloc(t, child), child, -1)
              IN  IF r.ok THEN gobDecodeNode(data, r.pos, r.t, path, field) ELSE r
         ELSE IF field = 2
         THEN LET r == gobDecodeRecord(data, pos + 1,
                                       IF t[path] # NoRec THEN t[path][1] ELSE ZeroRecord, -1)
                  t2 == [t EXCEPT ![path] = <<r.rec>>]
              IN  IF r.ok THEN gobDecodeNode(data, r.pos, t2, path, field)
                  ELSE [ok |-> FALSE, pos |-> r.pos, t |-> t2]
         ELSE [ok |-> FALSE, pos |-> pos, t |-> t]

\* decoder.Decode(&trie)
gobDecode(data, pos, t) == gobDecodeNode(data, pos, Alloc(t, <<>>), <<>>, -1)

RECURSIVE ReadStrings(_, _, _, _, _)
\* the loop of LoadCache that fills strings[i] and lookup, from position pos
ReadStrings(data, pos, st, i, count) ==
    IF i >= count THEN [ok |-> TRUE, pos |-> pos, st |-> st]
    ELSE IF pos > Len(data) THEN [ok |-> FALSE, pos |-> pos, st |-> st]
    ELSE IF pos + data[pos] > Len(data) THEN [ok |-> FALSE, pos |-> Len(data) + 1, st |-> st]
    ELSE LET str == SubSeq(data, pos + 1, pos + data[pos])
             st2 == [strings |-> [st.strings EXCEPT ![i + 1] = str],
                     lookup |-> IF str # EmptyStr
                                THEN [x \in DOMAIN st.lookup \cup {str} |->
                                        IF x = str THEN Uint16(i) ELSE st.lookup[x]]
                                ELSE st.lookup]
         IN  ReadStrings(data, pos + 1 + data[pos], st2, i + 1, count)

HeaderLen == Len(cacheHeader)

\* a plausible slip: the version is read but not compared
LoadCacheNoVersionCheck(gg, file) ==
    IF ~file.exists THEN [err |-> "open", g |-> gg, read |-> 0]
    ELSE LET data == file.data IN
    IF Len(data) < HeaderLen THEN [err |-> "unexpected EOF", g |-> gg, read |-> Len(data)]
    ELSE IF SubSeq(data, 1, HeaderLen) # cacheHeader
    THEN [err |-> "invalid cache file format", g |-> gg, read |-> HeaderLen]
    ELSE IF Len(data) < HeaderLen + 1 THEN [err |-> "EOF", g |-> gg, read |-> HeaderLen]
    ELSE IF Len(data) < HeaderLen + 2 THEN [err |-> "EOF", g |-> gg, read |-> HeaderLen + 1]
    ELSE LET count == data[HeaderLen + 2]
             st0 == [strings |-> [i \in 1..count |-> EmptyStr], lookup |-> NoLookup]
             rs == ReadStrings(data, HeaderLen + 3, st0, 0, count)
             g1 == [gg EXCEPT !.stringTable = rs.st]
         IN  IF ~rs.ok THEN [err |-> "unexpected EOF", g |-> g1, read |-> rs.pos - 1]
             ELSE LET d4 == gobDecode(data, rs.pos, gg.trieV4)
                      g2 == [g1 EXCEPT !.trieV4 = d4.t]
                  IN  IF ~d4.ok THEN [err |-> "gob", g |-> g2, read |-> d4.pos - 1]
                      ELSE LET d6 == gobDecode(data, d4.pos, gg.trieV6)
                               g3 == [g2 EXCEPT !.trieV6 = d6.t]
                           IN  IF ~d6.ok THEN [err |-> "gob", g |-> g3, read |-> d6.pos - 1]
                               ELSE [err |-> "", g |-> g3, read |-> d6.pos - 1]

\* (*IPGeo).LoadCache: the error returned ("" for nil), the IPGeo after the
\* call and the number of units of the file the call has parsed
LoadCache(gg, file) ==
    IF ~file.exists THEN [err |-> "open", g |-> gg, read |-> 0]
    ELSE LET data == file.data IN
    IF Len(data) < HeaderLen THEN [err |-> "unexpected EOF", g |-> gg, read |-> Len(data)]
    ELSE IF SubSeq(data, 1, HeaderLen) # cacheHeader
    THEN [err |-> "invalid cache file format", g |-> gg, read |-> HeaderLen]
    ELSE IF Len(data) < HeaderLen + 1 THEN [err |-> "EOF", g |-> gg, read |-> HeaderLen]
    ELSE IF data[HeaderLen + 1] # cacheVersion
    THEN [err |-> "incompatible cache version", g |-> gg, read |-> HeaderLen + 1]
    ELSE IF Len(data) < HeaderLen + 2 THEN [err |-> "EOF", g |-> gg, read |-> HeaderLen + 1]
    ELSE LET count == data[HeaderLen + 2]
             st0 == [strings |-> [i \in 1..count |-> EmptyStr], lookup |-> NoLookup]
             rs == ReadStrings(data, HeaderLen + 3, st0, 0, count)
             g1 == [gg EXCEPT !.stringTable = rs.st]
         IN  IF ~rs.ok THEN [err |-> "unexpected EOF", g |-> g1, read |-> rs.pos - 1]
             ELSE LET d4 == gobDecode(data, rs.pos, gg.trieV4)
                      g2 == [g1 EXCEPT !.trieV4 = d4.t]
                  IN  IF ~d4.ok THEN [err |-> "gob", g |-> g2, read |-> d4.pos - 1]
                      ELSE LET d6 == gobDecode(data, d4.pos, gg.trieV6)
                               g3 == [g2 EXCEPT !.trieV6 = d6.t]
                           IN  IF ~d6.ok THEN [err |-> "gob", g |-> g3, read |-> d6.pos - 1]
                               ELSE [err |-> "", g |-> g3, read |-> d6.pos - 1]

----------------------------------------------------------------------------
(* CSV files: sequences of at most MaxRows rows drawn from Rows *)

Row(s, e, cc, country, region, city, lat, lng) == <<s, e, cc, country, region, city, lat, lng>>

\* the IPv4 block 0.../1
RowBlockV4 ==
    Row(V4Text(Zeros(V4Bits)), V4Text(<<0>> \o Ones(V4Bits - 1)),
        StrNP, StrNepal, StrBagmati, EmptyStr, Num(27), Num(85))

\* one IPv4 address inside that block (start = end); its latitude is no number
RowHostV4 ==
    Row(V4Text(Zeros(V4Bits)), V4Text(Zeros(V4Bits)),
        StrUS, StrUS, EmptyStr, EmptyStr, NotANumber, Num(3))

\* the block of RowBlockV4 again, with other labels
RowBlockV4Again ==
    Row(V4Text(Zeros(V4Bits)), V4Text(<<0>> \o Ones(V4Bits - 1)),
        StrUS, StrUS, EmptyStr, EmptyStr, Num(1), Num(2))

\* the IPv6 block 0.../1, with empty labels and zero coordinates
RowBlockV6 ==
    Row(V6Text(Zeros(V6Bits)), V6Text(<<0>> \o Ones(V6Bits - 1)),
        EmptyStr, EmptyStr, EmptyStr, EmptyStr, Num(0), Num(0))

\* the IPv6 block 01.../2 inside it
RowSubBlockV6 ==
    Row(V6Text(<<0, 1>> \o Zeros(V6Bits - 2)), V6Text(<<0, 1>> \o Ones(V6Bits - 2)),
        StrNP, StrNepal, EmptyStr, EmptyStr, Num(1), Num(1))

\* a range that is no CIDR block
RowNotCIDR ==
    Row(V4Text(Zeros(V4Bits - 1) \o <<1>>), V4Text(<<1>> \o Zeros(V4Bits - 1)),
        StrKtm, StrNepal, EmptyStr, EmptyStr, Num(1), Num(2))

\* a start address that does not parse
RowBadIP ==
    Row(BadText, V4Text(Zeros(V4Bits)),
        StrNP, StrNepal, EmptyStr, EmptyStr, Num(1), Num(2))

\* six columns
RowShort == <<V4Text(Zeros(V4Bits)), V4Text(Ones(V4Bits)), StrNP, StrNepal, StrBagmati, StrKtm>>

\* an IPv4 start with an IPv6 end
RowV4ToV6 ==
    Row(V4Text(Zeros(V4Bits)), V6Text(Zeros(V6Bits)),
        StrNP, StrNepal, EmptyStr, EmptyStr, Num(1), Num(2))

\* an IPv6 start with an IPv4 end
RowV6ToV4 ==
    Row(V6Text(Zeros(V6Bits)), V4Text(Ones(V4Bits)),
        StrNP, StrNepal, EmptyStr, EmptyStr, Num(1), Num(2))

Rows == {RowBlockV4, RowHostV4, RowBlockV4Again, RowBlockV6, RowSubBlockV6,
         RowNotCIDR, RowBadIP, RowShort, RowV4ToV6, RowV6ToV4}

CSVFiles == UNION {[1..n -> Rows] : n \in 0..MaxRows}

----------------------------------------------------------------------------
(* The IPGeo and the lookup calls: defaultGeo is filled by LoadDBIP, as     *)
(* init does, and then queried.                                             *)

Init ==
    /\ GeoIdle
    /\ res = NoRes
    /\ GobIdle /\ TrieIdle /\ CIDRIdle /\ ReqIdle
    /\ handed = NoLookup /\ BootIdle

others == <<gobVars, trieVars, cidrVars, reqVars, bootVars, handed>>

NoArg == [fam |-> "none", bits |-> <<>>]

IPArg(ip) == [fam |-> "ip", bits |-> ip]

\* g.LoadDBIP(path), once on one IPGeo
DoLoadDBIP(files) ==
    /\ ~ingested
    /\ \E records \in files :
          LET r == LoadDBIP(g, records) IN
          /\ g' = r.g
          /\ res' = [op |-> "LoadDBIP", arg |-> NoArg,
                     out |-> [panic |-> r.panic, err |-> ""]]
    /\ ingested' = TRUE
    /\ cacheOfG' = FALSE
    /\ UNCHANGED <<cacheFile, csv, others>>

IngestCSV == DoLoadDBIP(CSVFiles)

CallLookup ==
    /\ \E ipStr \in IPTexts :
          res' = [op |-> "Lookup", arg |-> ipStr, out |-> Lookup(g, ipStr)]
    /\ UNCHANGED <<geoVars, others>>

CallLookupNetIP ==
    /\ \E ip \in AllIPs :
          res' = [op |-> "LookupNetIP", arg |-> IPArg(ip), out |-> LookupNetIP(g, ip)]
    /\ UNCHANGED <<geoVars, others>>

CallCountry ==
    /\ \E ipStr \in IPTexts :
          res' = [op |-> "Country", arg |-> ipStr, out |-> Country(g, ipStr)]
    /\ UNCHANGED <<geoVars, others>>

CallCountryByIP ==
    /\ \E ip \in AllIPs :
          res' = [op |-> "CountryByIP", arg |-> IPArg(ip), out |-> CountryByIP(g, ip)]
    /\ UNCHANGED <<geoVars, others>>

Next ==
    \/ IngestCSV
    \/ CallLookup
    \/ CallLookupNetIP
    \/ CallCountry
    \/ CallCountryByIP

Spec == Init /\ [][Next]_vars

----------------------------------------------------------------------------
(* The cache codec: SaveCache writes the cache file from g, LoadCache reads *)
(* it into g or into a new IPGeo.                                           *)

\* the rows the cache specification ingests
CacheRows == {RowBlockV4, RowHostV4, RowBlockV6, RowSubBlockV6, RowNotCIDR}

CacheCSVFiles == UNION {[1..n -> CacheRows] : n \in 0..MaxRows}

IngestForCache == DoLoadDBIP(CacheCSVFiles)

\* g.SaveCache(cachePath)
DoSaveCache ==
    /\ LET r == SaveCache(g) IN
          /\ cacheFile' = [exists |-> TRUE, data |-> r.data]
          /\ cacheOfG' = (r.err = "")
          /\ res' = [op |-> "SaveCache", arg |-> NoArg,
                     out |-> [panic |-> FALSE, err |-> r.err]]
    /\ UNCHANGED <<g, ingested, csv, others>>

\* g.LoadCache(cachePath)
DoLoadCache ==
    /\ LET r == LoadCache(g, cacheFile) IN
          /\ g' = r.g
          /\ cacheOfG' = (cacheOfG /\ r.g = g)
          /\ res' = [op |-> "LoadCache", arg |-> NoArg,
                     out |-> [panic |-> FALSE, err |-> r.err, read |-> r.read,
                              before |-> g, g |-> r.g]]
    /\ UNCHANGED <<cacheFile, ingested, csv, others>>

\* New().LoadCache(cachePath): the IPGeo loaded is kept in the result
DoLoadCacheNew ==
    /\ LET r == LoadCache(New, cacheFile) IN
          res' = [op |-> "LoadCacheNew", arg |-> NoArg,
                  out |-> [panic |-> FALSE, err |-> r.err, read |-> r.read,
                           before |-> New, g |-> r.g]]
    /\ UNCHANGED <<geoVars, others>>

\* the file SaveCache wrote is replaced by one this build did not write:
\* another format version, another magic, or a file cut short
ForeignCache ==
    /\ cacheOfG
    /\ \/ \E v \in {cacheVersion - 1, cacheVersion + 1} :
             cacheFile' = [cacheFile EXCEPT !.data[HeaderLen + 1] = v]
       \/ cacheFile' = [cacheFile EXCEPT !.data[1] = 0]
       \/ \E n \in 0..(Len(cacheFile.data) - 1) :
             cacheFile' = [cacheFile EXCEPT !.data = SubSeq(cacheFile.data, 1, n)]
    /\ cacheOfG' = FALSE
    /\ res' = [op |-> "ForeignCache", arg |-> NoArg, out |-> [panic |-> FALSE, err |-> ""]]
    /\ UNCHANGED <<g, ingested, csv, others>>

NextCache ==
    \/ IngestForCache
    \/ DoSaveCache
    \/ DoLoadCache
    \/ DoLoadCacheNew
    \/ ForeignCache

SpecCache == Init /\ [][NextCache]_vars

----------------------------------------------------------------------------
(* Properties of the lookup calls (Spec) *)

\* the address a lookup call was given, after net.ParseIP for a text
ArgIP(r) == IF r.arg.fam = "ip" THEN r.arg.bits ELSE ParseIP(r.arg)

LookupOps == {"Lookup", "LookupNetIP", "Country", "CountryByIP"}

\* C8: the public lookup calls Lookup, LookupNetIP, Country and CountryByIP
\* return a result for every input (an unparseable text, a nil net.IP, a
\* net.IP of a length that is neither 4 nor 16 bytes) on every loaded
\* database: none of them panics.
C8_LookupCallsTotal ==
    res.op \in LookupOps => ~res.out.panic

\* what holds of the code: the calls that take a text never panic, and the
\* calls that take a net.IP do not panic on a 4-byte or 16-byte address
LookupTotalOnAddresses ==
    (res.op \in LookupOps /\ (res.arg.fam # "ip" \/ res.arg.bits \in ValidIPs))
        => ~res.out.panic

\* the country code of the record Lookup finds for the address, "" if none
CountryCodeOf(gg, ip) ==
    IF ip = NilIP THEN EmptyStr
    ELSE IF LookupNetIP(gg, ip).Found THEN LookupNetIP(gg, ip).CountryCode
    ELSE EmptyStr

\* C10: Country(ip) and CountryByIP(ip) return the CountryCode field of the
\* record Lookup finds for the address, and the empty string when the address
\* is unparseable, nil or matches no record.
C10_CountryIsCountryCode ==
    (res.op \in {"Country", "CountryByIP"} /\ ~res.out.panic)
        => res.out.s = CountryCodeOf(g, ArgIP(res))

\* what holds of the code: the string returned is the Country field
CountryIsCountryField ==
    (res.op \in {"Country", "CountryByIP"} /\ ~res.out.panic)
        => res.out.s = (IF ArgIP(res) = NilIP THEN EmptyStr
                        ELSE LookupNetIP(g, ArgIP(res)).Country)

----------------------------------------------------------------------------
(* Properties of the cache codec (SpecCache) *)

\* C4: for an IPGeo built by LoadDBIP, SaveCache followed by LoadCache of that
\* file into a new IPGeo succeeds and gives a database whose Lookup returns,
\* for every address, the labels, coordinates and Found flag the original
\* database returns.
C4_CacheRoundTrip ==
    (res.op = "LoadCacheNew" /\ cacheOfG)
        => /\ res.out.err = ""
           /\ \A ip \in AllIPs : IPGeoLookup(res.out.g, ip) = IPGeoLookup(g, ip)

\* a round trip of a database with records in both tries, where some address
\* matches a record with labels and some address matches none
C4_Witness ==
    /\ res.op = "LoadCacheNew" /\ cacheOfG /\ ingested
    /\ res.out.err = ""
    /\ \E ip \in IPv4Len : IPGeoLookup(g, ip).Found /\ IPGeoLookup(g, ip).CountryCode # EmptyStr
    /\ \E ip \in PureV6 : IPGeoLookup(g, ip).Found
    /\ \E ip \in ValidIPs : ~IPGeoLookup(g, ip).Found

\* the file starts with another magic, or with the magic and another version
BadMagicOrVersion(file) ==
    /\ file.exists
    /\ Len(file.data) >= HeaderLen
    /\ \/ SubSeq(file.data, 1, HeaderLen) # cacheHeader
       \/ Len(file.data) > HeaderLen /\ file.data[HeaderLen + 1] # cacheVersion

\* C5: LoadCache checks the magic header and then the version before anything
\* else: on a file with another header or another version it returns an
\* error, has parsed nothing beyond the version field, and leaves the string
\* table and the tries of the receiving IPGeo as they were.
C5_HeaderAndVersionFirst ==
    (res.op \in {"LoadCache", "LoadCacheNew"} /\ BadMagicOrVersion(cacheFile))
        => /\ res.out.err # ""
           /\ res.out.g = res.out.before
           /\ res.out.read <= HeaderLen + 1

\* a loaded IPGeo refuses a file of another version that holds a string
\* table and tries
C5_Witness ==
    /\ res.op = "LoadCache"
    /\ res.out.err = "incompatible cache version"
    /\ res.out.before.trieV4 # NilTrie
    /\ Len(res.out.before.stringTable.strings) > 1
    /\ Len(cacheFile.data) > HeaderLen + 3

----------------------------------------------------------------------------
(* The variant of the package that keeps two global tries of GeoRecords     *)
(* with the labels as strings, loaded by init from one CSV per family.      *)

GeoRecord(network, country, region, city, lat, lon) ==
    [Network |-> network, Country |-> country, Region |-> region, City |-> city,
     Latitude |-> lat, Longitude |-> lon]

\* one row of loadTrieFromCSV's loop, on the state [t, panic]
loadTrieRow(acc, row) ==
    IF acc.panic THEN acc
    ELSE IF Len(row) < 9 THEN acc
    ELSE LET startIP == ParseIP(row[1])
             endIP == ParseIP(row[2])
         IN  IF startIP = NilIP \/ endIP = NilIP THEN acc
             ELSE LET pl == computePrefixLen(startIP, endIP)
                      lat == ParseFloat(row[8])
                      lon == ParseFloat(row[9])
                  IN  IF pl.kind = "panic" THEN [acc EXCEPT !.panic = TRUE]
                      ELSE IF pl.kind = "err" THEN acc
                      ELSE IF lat.err \/ lon.err THEN acc
                      ELSE LET geo == GeoRecord(<<startIP, pl.p>>, row[3], row[4], row[6],
                                                lat.v, lon.v)
                               r == IF To4(startIP) # NilIP
                                    THEN insertTrie(acc.t, To4(startIP), pl.p, geo)
                                    ELSE insertTrie(acc.t, startIP, pl.p, geo)
                           IN  [t |-> r.t, panic |-> r.panic]

RECURSIVE loadTrieRows(_, _, _)
loadTrieRows(acc, records, i) ==
    IF i > Len(records) THEN acc
    ELSE loadTrieRows(loadTrieRow(acc, records[i]), records, i + 1)

\* loadTrieFromCSV on the parsed records of the file
loadTrieFromCSV(records) == loadTrieRows([t |-> EmptyRoot, panic |-> FALSE], records, 1)

NoGeo == [panic |-> FALSE, err |-> "", rec |-> NoRec]

\* LookupGeoIP: the record pointer and the error returned ("" for nil)
LookupGeoIP(t4, t6, ip) ==
    LET r == IF To4(ip) # NilIP THEN lookupTrie(t4, To4(ip), V4Bits)
             ELSE lookupTrie(t6, ip, V6Bits)
    IN  IF r.panic THEN [NoGeo EXCEPT !.panic = TRUE]
        ELSE IF r.rec = NoRec THEN [NoGeo EXCEPT !.err = "no geolocation record found"]
        ELSE [NoGeo EXCEPT !.rec = r.rec]

\* LookupGeo, which GeoLocation forwards to
LookupGeo(t4, t6, ipStr) ==
    IF ParseIP(ipStr) = NilIP THEN [NoGeo EXCEPT !.err = "invalid IP address"]
    ELSE LookupGeoIP(t4, t6, ParseIP(ipStr))

\* rows of nine columns: start, end, country, region, -, city, -, latitude, longitude
GeoRow(s, e, country, region, city, lat, lon) ==
    <<s, e, country, region, EmptyStr, city, EmptyStr, lat, lon>>

GeoRowBlockV4 ==
    GeoRow(V4Text(Zeros(V4Bits)), V4Text(<<0>> \o Ones(V4Bits - 1)),
           StrNP, StrBagmati, StrKtm, Num(27), Num(85))

\* its latitude is no number
GeoRowHostV4 ==
    GeoRow(V4Text(Ones(V4Bits)), V4Text(Ones(V4Bits)),
           StrUS, EmptyStr, EmptyStr, NotANumber, Num(3))

GeoRowBlockV6 ==
    GeoRow(V6Text(Zeros(V6Bits)), V6Text(<<0>> \o Ones(V6Bits - 1)),
           StrUS, EmptyStr, EmptyStr, Num(1), Num(2))

GeoRowNotCIDR ==
    GeoRow(V4Text(Zeros(V4Bits - 1) \o <<1>>), V4Text(<<1>> \o Zeros(V4Bits - 1)),
           StrNP, EmptyStr, EmptyStr, Num(1), Num(2))

GeoRows == {GeoRowBlockV4, GeoRowHostV4, GeoRowBlockV6, GeoRowNotCIDR, RowBlockV4}

GeoCSVFiles == UNION {[1..n -> GeoRows] : n \in 0..MaxRows}

\* init: each trie is built by loadTrie from the CSV of its family
LoadTries ==
    /\ trieV4 = NilTrie /\ trieV6 = NilTrie
    /\ \E csv4 \in GeoCSVFiles, csv6 \in GeoCSVFiles :
          /\ trieV4' = loadTrieFromCSV(csv4).t
          /\ trieV6' = loadTrieFromCSV(csv6).t
          /\ res' = [op |-> "init", arg |-> NoArg,
                     out |-> [NoGeo EXCEPT !.panic = loadTrieFromCSV(csv4).panic
                                                     \/ loadTrieFromCSV(csv6).panic]]
    /\ UNCHANGED <<geoVars, trieVars, cidrVars, reqVars, bootVars, handed>>

CallLookupGeo ==
    /\ \E ipStr \in IPTexts :
          res' = [op |-> "LookupGeo", arg |-> ipStr, out |-> LookupGeo(trieV4, trieV6, ipStr)]
    /\ UNCHANGED <<geoVars, gobVars, trieVars, cidrVars, reqVars, bootVars, handed>>

CallLookupGeoIP ==
    /\ \E ip \in AllIPs :
          res' = [op |-> "LookupGeoIP", arg |-> IPArg(ip),
                  out |-> LookupGeoIP(trieV4, trieV6, ip)]
    /\ UNCHANGED <<geoVars, gobVars, trieVars, cidrVars, reqVars, bootVars, handed>>

NextGob ==
    \/ LoadTries
    \/ CallLookupGeo
    \/ CallLookupGeoIP

SpecGob == Init /\ [][NextGob]_vars

\* C9: a text that is no IP address, given to a string lookup entry point
\* (Lookup; LookupGeo, which GeoLocation forwards to), comes back as a
\* not-found result with empty labels and never as an error value.
C9_UnparseableIsNotFound ==
    /\ (res.op = "Lookup" /\ ParseIP(res.arg) = NilIP) => res.out = NotFound
    /\ (res.op = "LookupGeo" /\ ParseIP(res.arg) = NilIP)
           => ~res.out.panic /\ res.out.err = "" /\ res.out.rec = NoRec

----------------------------------------------------------------------------
(* CSV ingestion on its own: one file is read by LoadDBIP into g, or by     *)
(* loadTrieFromCSV into the trie of its family, and the records of the file *)
(* are kept to state what the tries must hold.                              *)

\* the rows loadTrieFromCSV is given here
IngestGeoRows == GeoRows \cup {RowShort}

IngestGeoCSVFiles == UNION {[1..n -> IngestGeoRows] : n \in 0..MaxRows}

NothingRead == ~ingested /\ trieV4 = NilTrie /\ csv = <<>> /\ res = NoRes

\* g.LoadDBIP(csvPath)
IngestDBIP ==
    /\ NothingRead
    /\ \E records \in CSVFiles :
          LET r == LoadDBIP(g, records) IN
          /\ g' = r.g
          /\ csv' = records
          /\ res' = [op |-> "LoadDBIP", arg |-> NoArg,
                     out |-> [panic |-> r.panic, err |-> ""]]
    /\ ingested' = TRUE
    /\ UNCHANGED <<cacheFile, cacheOfG, gobVars, trieVars, cidrVars, reqVars, bootVars, handed>>

\* trieV4, errV4 = loadTrie(...), on the path that builds the trie from the CSV
IngestGeoCSV ==
    /\ NothingRead
    /\ \E records \in IngestGeoCSVFiles :
          LET r == loadTrieFromCSV(records) IN
          /\ trieV4' = r.t
          /\ csv' = records
          /\ res' = [op |-> "loadTrieFromCSV", arg |-> NoArg,
                     out |-> [panic |-> r.panic, err |-> ""]]
    /\ UNCHANGED <<g, cacheFile, cacheOfG, ingested, trieV6, trieVars, cidrVars, reqVars, bootVars, handed>>

NextIngest ==
    \/ IngestDBIP
    \/ IngestGeoCSV

SpecIngest == Init /\ [][NextIngest]_vars

----------------------------------------------------------------------------
(* Properties of CSV ingestion (SpecIngest) *)

NoTarget == [fam |-> "none", path |-> <<>>]

\* the insertTrie call LoadDBIP makes for a row: the trie and the prefix
DBIPTarget(row) ==
    IF Len(row) < 8 \/ ParseIP(row[1]) = NilIP \/ ParseIP(row[2]) = NilIP THEN NoTarget
    ELSE LET pl == computePrefixLen(ParseIP(row[1]), ParseIP(row[2]))
         IN  IF pl.kind # "ok" THEN NoTarget
             ELSE [fam |-> IF IsV4(ParseIP(row[1])) THEN "v4" ELSE "v6",
                   path |-> PrefixOf(ParseIP(row[1]), pl.p)]

TrieOf(gg, fam) == IF fam = "v4" THEN gg.trieV4 ELSE gg.trieV6

BitsOf(fam) == IF fam = "v4" THEN V4Bits ELSE V6Bits

\* the paths of the nodes that carry a record
RecordPaths(t) == {p \in DOMAIN t : t[p] # NoRec}

\* start and end of the row parse to addresses of different families
MixedRow(row) ==
    /\ Len(row) >= 8
    /\ ParseIP(row[1]) # NilIP /\ ParseIP(row[2]) # NilIP
    /\ ~SameFamily(ParseIP(row[1]), ParseIP(row[2]))

\* p is the longest prefix with a record in t that contains ip
LongestMatch(t, ip, p) ==
    /\ p \in RecordPaths(t)
    /\ IsPrefix(p, AddrBits(ip))
    /\ \A q \in RecordPaths(t) : IsPrefix(q, AddrBits(ip)) => Len(q) <= Len(p)

\* the labels of a row as Lookup returns them, while the string table has
\* not run out of indices
LabelsOfRow(gg, row, rec) ==
    Len(gg.stringTable.strings) <= IdxMod =>
        /\ GetString(gg.stringTable, rec.CountryCode) = row[3]
        /\ GetString(gg.stringTable, rec.Country) = row[4]
        /\ GetString(gg.stringTable, rec.Region) = row[5]
        /\ GetString(gg.stringTable, rec.City) = row[6]

Coords(t) == [p \in RecordPaths(t) |-> <<t[p][1].Lat, t[p][1].Lng>>]

GeoCoords(t) == [p \in RecordPaths(t) |-> <<t[p][1].Latitude, t[p][1].Longitude>>]

\* the latitude or the longitude of the row, in columns a and b, is no number
BadCoords(row, a, b) ==
    Len(row) >= b /\ (ParseFloat(row[a]).err \/ ParseFloat(row[b]).err)

RECURSIVE WithoutBadCoords(_, _, _)
\* the file without the rows whose coordinates do not parse
WithoutBadCoords(records, a, b) ==
    IF records = <<>> THEN <<>>
    ELSE IF BadCoords(Head(records), a, b) THEN WithoutBadCoords(Tail(records), a, b)
    ELSE <<Head(records)>> \o WithoutBadCoords(Tail(records), a, b)

\* C12: a row whose latitude or longitude does not parse as a number is
\* skipped: it inserts no record into either trie, and the rows after it are
\* ingested; the tries hold the records the file without these rows gives.
C12_BadCoordinatesSkipped ==
    /\ (res.op = "LoadDBIP" /\ ~res.out.panic) =>
          LET clean == LoadDBIP(New, WithoutBadCoords(csv, 7, 8)).g
          IN  /\ Coords(g.trieV4) = Coords(clean.trieV4)
              /\ Coords(g.trieV6) = Coords(clean.trieV6)
    /\ (res.op = "loadTrieFromCSV" /\ ~res.out.panic) =>
          GeoCoords(trieV4) = GeoCoords(loadTrieFromCSV(WithoutBadCoords(csv, 8, 9)).t)

\* what holds of the code: loadTrieFromCSV skips these rows, LoadDBIP does not
BadCoordinatesSkippedByLoadTrie ==
    (res.op = "loadTrieFromCSV" /\ ~res.out.panic) =>
        GeoCoords(trieV4) = GeoCoords(loadTrieFromCSV(WithoutBadCoords(csv, 8, 9)).t)

\* the row has at least n columns, a range of one family that is exactly a
\* CIDR block, and coordinates that parse in columns a and b
ValidRow(row, n, a, b) ==
    /\ Len(row) >= n
    /\ ParseIP(row[1]) # NilIP /\ ParseIP(row[2]) # NilIP
    /\ SameFamily(ParseIP(row[1]), ParseIP(row[2]))
    /\ \E p \in 0..Len(AddrBits(ParseIP(row[1]))) :
          IsExactCIDR(AddrBits(ParseIP(row[1])), AddrBits(ParseIP(row[2])), p)
    /\ ~BadCoords(row, a, b)

\* the prefix of a valid row
BlockOf(row) ==
    PrefixOf(ParseIP(row[1]),
             SharedLeading(AddrBits(ParseIP(row[1])), AddrBits(ParseIP(row[2]))))

ShortRow(row) == Len(row) < 8

RECURSIVE WithoutShort(_)
WithoutShort(records) ==
    IF records = <<>> THEN <<>>
    ELSE IF ShortRow(Head(records)) THEN WithoutShort(Tail(records))
    ELSE <<Head(records)>> \o WithoutShort(Tail(records))

FromValidatedCIDR(fam, p) ==
    \E j \in DOMAIN csv :
        /\ Len(csv[j]) >= 8
        /\ ParseIP(csv[j][1]) # NilIP /\ ParseIP(csv[j][2]) # NilIP
        /\ SameFamily(ParseIP(csv[j][1]), ParseIP(csv[j][2]))
        /\ IsV4(ParseIP(csv[j][1])) = (fam = "v4")
        /\ Len(p) <= Len(AddrBits(ParseIP(csv[j][1])))
        /\ IsExactCIDR(AddrBits(ParseIP(csv[j][1])), AddrBits(ParseIP(csv[j][2])), Len(p))
        /\ PrefixOf(ParseIP(csv[j][1]), Len(p)) = p

\* C14: after the ingestion every node that carries a record lies at depth d
\* on a path b such that some row of the file has a range that is exactly the
\* CIDR block b/d; a row whose start or end does not parse, or whose range is
\* no exact CIDR block, attaches no record.
C14_RecordsFromValidatedCIDR ==
    /\ res.op = "LoadDBIP" =>
          /\ \A p \in RecordPaths(g.trieV4) : FromValidatedCIDR("v4", p)
          /\ \A p \in RecordPaths(g.trieV6) : FromValidatedCIDR("v6", p)
    /\ res.op = "loadTrieFromCSV" =>
          \A p \in RecordPaths(trieV4) :
              FromValidatedCIDR("v4", p) \/ FromValidatedCIDR("v6", p)

\* what holds of the code: the same for files without a row of two families
RecordsFromCIDRSameFamily ==
    (\A i \in DOMAIN csv : ~MixedRow(csv[i])) => C14_RecordsFromValidatedCIDR

----------------------------------------------------------------------------
(* init of the package that keeps defaultGeo: the marker file               *)
(* latest-ipdb.txt, the cache file and the CSV of the current month on      *)
(* disk, and the download of that CSV.                                      *)

\* the contents of latest-ipdb.txt: no file, the current year-month, another
Markers == {"absent", "current", "other"}

\* http.Get: the file is delivered, the request fails, or the response never ends
NetOutcomes == {"ok", "refused", "stall"}

\* the rows of the CSV files init finds or downloads
InitRows == {RowBlockV4, RowBlockV4Again, RowSubBlockV6}

NoCSV == [exists |-> FALSE, ok |-> FALSE, records |-> <<>>]

\* a file LoadDBIP cannot read as gzip-compressed CSV
BrokenCSV == [exists |-> TRUE, ok |-> FALSE, records |-> <<>>]

CSVOf(records) == [exists |-> TRUE, ok |-> TRUE, records |-> records]

DiskCSVs ==
    {NoCSV, BrokenCSV} \cup {CSVOf(r) : r \in UNION {[1..n -> InitRows] : n \in 0..MaxRows}}

\* the file the server delivers
RemoteCSV == <<RowBlockV4>>

\* cache files an earlier run has written
CacheSources ==
    {SaveCache(LoadDBIP(New, <<RowBlockV4>>).g).data,
     SaveCache(LoadDBIP(New, <<RowBlockV4, RowNotCIDR>>).g).data}

\* these files, whole, cut short at any length, or of another format version
InitCacheFiles ==
    {NoFile}
    \cup UNION {{[exists |-> TRUE, data |-> SubSeq(d, 1, n)] : n \in 0..Len(d)} :
                    d \in CacheSources}
    \cup {[exists |-> TRUE, data |-> [d EXCEPT ![HeaderLen + 1] = cacheVersion + 1]] :
             d \in CacheSources}

\* what init leaves behind when it ends in a phase: defaultGeo, the files,
\* and which steps were taken
initStop(phase, gg, e, cf, steps) ==
    [phase |-> phase, g |-> gg, env |-> e, cacheFile |-> cf, steps |-> steps]

\* init after defaultGeo.LoadDBIP(csvPath) returned ld: a panic on an error,
\* else SaveCache and the write of the marker
initRebuilt(e, cf, steps, csv1, ld) ==
    IF ld.panic THEN initStop("FATAL", ld.g, [e EXCEPT !.csv = csv1], cf, steps)
    ELSE initStop("READY", ld.g, [e EXCEPT !.csv = csv1, !.marker = "current"],
                  [exists |-> TRUE, data |-> SaveCache(ld.g).data],
                  [steps EXCEPT !.rebuilt = TRUE])

\* init with needUpdate set: the download when the CSV is not on disk, then
\* LoadDBIP into defaultGeo as it is by then (g1)
initUpdate(e, cf, steps, g1) ==
    LET needDownload == ~e.csv.exists
        csv1 == IF needDownload THEN CSVOf(RemoteCSV) ELSE e.csv
        steps1 == [steps EXCEPT !.downloadTried = needDownload]
    IN  IF needDownload /\ e.net = "stall" THEN initStop("DOWNLOADING", g1, e, cf, steps1)
        ELSE IF needDownload /\ e.net = "refused" THEN initStop("FATAL", g1, e, cf, steps1)
        ELSE IF ~csv1.ok THEN initStop("FATAL", g1, e, cf, steps1)
        ELSE initRebuilt(e, cf, steps1, csv1, LoadDBIP(g1, csv1.records))

\* init after the decision on needUpdate; lc is what defaultGeo.LoadCache
\* gives, which is called only when needUpdate is not set
initCached(needUpdate0, e, cf, lc) ==
    LET steps == [cacheTried |-> ~needUpdate0, cacheErr |-> ~needUpdate0 /\ lc.err # "",
                  downloadTried |-> FALSE, rebuilt |-> FALSE]
    IN  IF ~needUpdate0 /\ lc.err = "" THEN initStop("READY", lc.g, e, cf, steps)
        ELSE initUpdate(e, cf, steps, IF needUpdate0 THEN New ELSE lc.g)

\* the steps of init from the decision on needUpdate on: the phase init ends
\* in, defaultGeo, the files, and which steps were taken
initFrom(needUpdate0, e, cf) == initCached(needUpdate0, e, cf, LoadCache(New, cf))

\* a plausible slip: the cache is tried whatever the marker says
initCacheAlways(e, cf) == initFrom(FALSE, e, cf)

\* init: needUpdate unless the marker holds the current year-month
init(e, cf) == initFrom(e.marker # "current", e, cf)

InitBoot ==
    /\ env \in [marker : Markers, csv : DiskCSVs, net : NetOutcomes]
    /\ cacheFile \in InitCacheFiles
    /\ boot = NoBoot
    /\ g = New /\ cacheOfG = FALSE /\ ingested = FALSE /\ csv = <<>>
    /\ res = NoRes
    /\ GobIdle /\ TrieIdle /\ CIDRIdle /\ ReqIdle
    /\ handed = NoLookup

\* the package's init runs, once
RunInit ==
    /\ boot.phase = "START"
    /\ \E r \in {init(env, cacheFile)} :
          /\ g' = r.g
          /\ env' = r.env
          /\ cacheFile' = r.cacheFile
          /\ boot' = [phase |-> r.phase, steps |-> r.steps,
                      marker0 |-> env.marker, csv0 |-> env.csv, cache0 |-> cacheFile]
          /\ res' = [op |-> "init", arg |-> NoArg, out |-> [panic |-> r.phase = "FATAL", err |-> ""]]
    /\ UNCHANGED <<cacheOfG, ingested, csv, gobVars, trieVars, cidrVars, reqVars, handed>>

NextBoot == RunInit

SpecBoot == InitBoot /\ [][NextBoot]_vars

----------------------------------------------------------------------------
(* Properties of init (SpecBoot) *)

InitDone == boot.phase # "START"

\* C15: fallback chain.  When the cache file is missing or fails to load and a
\* valid CSV is on disk, init ends READY without a download, and defaultGeo
\* gives for every address the Lookup result of ingesting that CSV alone.
C15_FallbackToCSV ==
    (/\ InitDone
     /\ LoadCache(New, boot.cache0).err # ""
     /\ boot.csv0.exists /\ boot.csv0.ok)
    => /\ boot.phase = "READY"
       /\ ~boot.steps.downloadTried
       /\ \A ip \in ValidIPs :
             IPGeoLookup(g, ip) = IPGeoLookup(LoadDBIP(New, boot.csv0.records).g, ip)

\* what holds of the code: init ends READY without a download, and the tries
\* have the shape the CSV alone gives
FallbackReadyFromCSV ==
    (/\ InitDone
     /\ LoadCache(New, boot.cache0).err # ""
     /\ boot.csv0.exists /\ boot.csv0.ok)
    => /\ boot.phase = "READY"
       /\ ~boot.steps.downloadTried
       /\ Coords(g.trieV4) = Coords(LoadDBIP(New, boot.csv0.records).g.trieV4)
       /\ Coords(g.trieV6) = Coords(LoadDBIP(New, boot.csv0.records).g.trieV6)

----------------------------------------------------------------------------
(* init of the variant with two global tries: two goroutines run loadTrie,  *)
(* one per family, init waits for both and stops the process on an error.   *)
(* Per family the environment is the compiled-in snapshot, the cache file,  *)
(* the CSV file and the network.  A file is named by its state; what a      *)
(* readable file holds is fixed per family.                                 *)

Families == {"v4", "v6"}

\* a row of the block 0.../1 of family f with the coordinate c
SampleRow(f, c) ==
    IF f = "v4"
    THEN GeoRow(V4Text(Zeros(V4Bits)), V4Text(<<0>> \o Ones(V4Bits - 1)),
                StrNP, EmptyStr, EmptyStr, Num(c), Num(c))
    ELSE GeoRow(V6Text(Zeros(V6Bits)), V6Text(<<0>> \o Ones(V6Bits - 1)),
                StrNP, EmptyStr, EmptyStr, Num(c), Num(c))

\* the trie the compiled-in snapshot decodes to
EmbeddedTrie(f) == loadTrieFromCSV(<<SampleRow(f, 10)>>).t

\* the trie the cache file on disk decodes to
CachedTrie(f) == loadTrieFromCSV(<<SampleRow(f, 20)>>).t

\* the records of the CSV file on disk, and of the file the server delivers
DiskRecords(f) == <<SampleRow(f, 30)>>

RemoteRecords(f) == <<SampleRow(f, 40)>>

\* embedded: the snapshot is empty, decodes, or does not decode
\* cache: no file, a file newer or older than the CSV, a file that does not decode
\* csv: no file, a readable file, a file csv.Reader rejects
FamilyEnvs ==
    [embedded : {"none", "valid", "corrupt"},
     cache : {"none", "newer", "older", "corrupt"},
     csv : {"none", "ok", "unreadable"},
     net : NetOutcomes]

NoSteps == [embedded |-> FALSE, cacheRead |-> FALSE, csvRead |-> FALSE, download |-> FALSE]

Loaded(t, e, steps) == [trie |-> t, err |-> "", blocked |-> FALSE, env |-> e, steps |-> steps]

Failed(msg, e, steps) ==
    [trie |-> NilTrie, err |-> msg, blocked |-> FALSE, env |-> e, steps |-> steps]

\* loadTrieFromEmbedded
loadTrieFromEmbedded(e, f) ==
    IF e.embedded = "valid" THEN Loaded(EmbeddedTrie(f), e, [NoSteps EXCEPT !.embedded = TRUE])
    ELSE Failed("error decoding embedded trie", e, [NoSteps EXCEPT !.embedded = TRUE])

\* loadTrie after the embedded snapshot was found empty: the cache file, then
\* the CSV file, then the download
loadTrieFromDisk(e, f) ==
    LET cacheTried == e.cache # "none" /\ (e.csv = "none" \/ e.cache # "older")
        cacheOK == cacheTried /\ e.cache \in {"newer", "older"}
        s1 == [NoSteps EXCEPT !.cacheRead = cacheTried]
        s2 == [s1 EXCEPT !.csvRead = TRUE]
        s3 == [s1 EXCEPT !.download = TRUE]
        fromDisk == loadTrieFromCSV(DiskRecords(f))
        fromNet == loadTrieFromCSV(RemoteRecords(f))
    IN  IF cacheOK THEN Loaded(CachedTrie(f), e, s1)
        ELSE IF e.csv = "unreadable" THEN Failed("error reading CSV file", e, s2)
        ELSE IF e.csv = "ok" THEN Loaded(fromDisk.t, [e EXCEPT !.cache = "saved"], s2)
        ELSE IF e.net = "stall"
        THEN [Failed("", e, s3) EXCEPT !.blocked = TRUE]
        ELSE IF e.net = "refused" THEN Failed("failed to download CSV", e, s3)
        ELSE Loaded(fromNet.t, [e EXCEPT !.csv = "downloaded", !.cache = "saved"],
                    [s3 EXCEPT !.csvRead = TRUE])

\* a plausible slip: the files on disk are tried before the embedded snapshot
loadTrieDiskFirst(e, f) ==
    IF e.cache # "none" \/ e.csv # "none" THEN loadTrieFromDisk(e, f)
    ELSE IF e.embedded # "none" THEN loadTrieFromEmbedded(e, f)
    ELSE loadTrieFromDisk(e, f)

\* loadTrie
loadTrie(e, f) ==
    IF e.embedded # "none" THEN loadTrieFromEmbedded(e, f)
    ELSE loadTrieFromDisk(e, f)

NoLoader == [done |-> FALSE, blocked |-> FALSE, err |-> "", steps |-> NoSteps]

\* addresses the lookups after init are made with
ProbeIPs == {Zeros(V4Bits), Zeros(V6Bits), Ones(V4Bits)}

InitGobBoot ==
    /\ env \in [v4 : FamilyEnvs, v6 : FamilyEnvs]
    /\ boot = [phase |-> "LOADING", v4 |-> NoLoader, v6 |-> NoLoader, env0 |-> env]
    /\ res = NoRes
    /\ GeoIdle /\ GobIdle /\ TrieIdle /\ CIDRIdle /\ ReqIdle
    /\ handed = NoLookup

\* the goroutine that assigns trieV4, errV4
LoadV4 ==
    /\ boot.phase = "LOADING" /\ ~boot.v4.done /\ ~boot.v4.blocked
    /\ \E r \in {loadTrie(env.v4, "v4")} :
          /\ trieV4' = r.trie
          /\ env' = [env EXCEPT !.v4 = r.env]
          /\ boot' = [boot EXCEPT !.v4 = [done |-> ~r.blocked, blocked |-> r.blocked,
                                          err |-> r.err, steps |-> r.steps]]
    /\ UNCHANGED <<geoVars, trieV6, trieVars, cidrVars, reqVars, handed, res>>

\* the goroutine that assigns trieV6, errV6
LoadV6 ==
    /\ boot.phase = "LOADING" /\ ~boot.v6.done /\ ~boot.v6.blocked
    /\ \E r \in {loadTrie(env.v6, "v6")} :
          /\ trieV6' = r.trie
          /\ env' = [env EXCEPT !.v6 = r.env]
          /\ boot' = [boot EXCEPT !.v6 = [done |-> ~r.blocked, blocked |-> r.blocked,
                                          err |-> r.err, steps |-> r.steps]]
    /\ UNCHANGED <<geoVars, trieV4, trieVars, cidrVars, reqVars, handed, res>>

\* a plausible slip: init goes on when the IPv4 loader is done
JoinAfterV4 ==
    /\ boot.phase = "LOADING"
    /\ boot.v4.done
    /\ boot' = [boot EXCEPT !.phase = IF boot.v4.err # "" \/ boot.v6.err # ""
                                      THEN "FATAL" ELSE "READY"]
    /\ UNCHANGED <<geoVars, gobVars, trieVars, cidrVars, reqVars, env, handed, res>>

\* wg.Wait() and the two error checks: log.Fatalf ends the process
Join ==
    /\ boot.phase = "LOADING"
    /\ boot.v4.done /\ boot.v6.done
    /\ boot' = [boot EXCEPT !.phase = IF boot.v4.err # "" \/ boot.v6.err # ""
                                      THEN "FATAL" ELSE "READY"]
    /\ UNCHANGED <<geoVars, gobVars, trieVars, cidrVars, reqVars, env, handed, res>>

\* a lookup, which can run once init has returned
ServeLookupGeoIP ==
    /\ boot.phase = "READY"
    /\ \E ip \in ProbeIPs :
          res' = [op |-> "LookupGeoIP", arg |-> IPArg(ip),
                  out |-> LookupGeoIP(trieV4, trieV6, ip)]
    /\ UNCHANGED <<geoVars, gobVars, trieVars, cidrVars, reqVars, bootVars, handed>>

NextGobBoot ==
    \/ LoadV4
    \/ LoadV6
    \/ Join
    \/ ServeLookupGeoIP

SpecGobBoot == InitGobBoot /\ [][NextGobBoot]_vars

\* the same init on fewer environments, with the scheduling of the
\* goroutines and of init: each of them runs when it can
InitGobBootLive ==
    /\ InitGobBoot
    /\ env.v4.embedded = "none" /\ env.v4.cache = "none" /\ env.v4.csv \in {"none", "ok"}
    /\ env.v6.embedded \in {"none", "valid"} /\ env.v6.cache = "none"
    /\ env.v6.csv = "none" /\ env.v6.net \in {"ok", "stall"}

SpecGobBootLive ==
    /\ InitGobBootLive
    /\ [][NextGobBoot]_vars
    /\ WF_vars(LoadV4) /\ WF_vars(LoadV6) /\ WF_vars(Join)

----------------------------------------------------------------------------
(* Properties of the init with two loaders (SpecGobBoot, SpecGobBootLive) *)

\* C17: initialization always terminates.  Also when the download of the
\* dataset stalls, init eventually ends READY or FATAL.
C17_InitTerminates == <>(boot.phase \in {"READY", "FATAL"})

\* what holds of the code: init ends unless a download it needs stalls
TerminatesUnlessStalled ==
    (~loadTrie(env.v4, "v4").blocked /\ ~loadTrie(env.v6, "v6").blocked)
        => <>(boot.phase \in {"READY", "FATAL"})

\* C18: join, then publish.  Each loader writes only its own trie and error;
\* init returns, and a lookup runs, only after both loaders have finished; if
\* a loader returned an error the process stops, and no lookup is served from
\* a database of which only one family has loaded.
C18_JoinThenPublish ==
    /\ ~boot.v4.done => (trieV4 = NilTrie /\ boot.v4.err = "")
    /\ ~boot.v6.done => (trieV6 = NilTrie /\ boot.v6.err = "")
    /\ boot.phase # "LOADING" => (boot.v4.done /\ boot.v6.done)
    /\ boot.phase = "READY" =>
          /\ boot.v4.err = "" /\ boot.v6.err = ""
          /\ trieV4 = loadTrie(boot.env0.v4, "v4").trie
          /\ trieV6 = loadTrie(boot.env0.v6, "v6").trie
    /\ (boot.v4.err # "" \/ boot.v6.err # "") => boot.phase # "READY"
    /\ res.op = "LookupGeoIP" => boot.phase = "READY"

\* a lookup is served after the two tries came from different sources
C18_Witness ==
    /\ res.op = "LookupGeoIP"
    /\ res.out.rec # NoRec
    /\ boot.phase = "READY"
    /\ boot.v4.steps.csvRead /\ boot.v6.steps.embedded

----------------------------------------------------------------------------
(* A refresh of a loaded IPGeo while lookups run.  LoadCache takes no lock:  *)
(* a Lookup can run after any unit of the file has been read, and what      *)
(* LoadCache has assigned by then is what it leaves behind when the file     *)
(* ends there.  LoadDBIP interns the labels of the rows into g.stringTable   *)
(* row by row, builds the new tries aside and assigns both under g.mu.       *)

\* the databases that are published when the refresh starts
RefreshOld ==
    {LoadDBIP(New, <<RowBlockV4>>).g, LoadDBIP(New, <<RowBlockV6>>).g}

\* the CSV files a refresh ingests
RefreshCSVs == {<<RowBlockV4Again>>, <<RowSubBlockV6, RowBlockV4Again>>}

\* the cache files a refresh loads: SaveCache of another database
RefreshCaches ==
    {[exists |-> TRUE, data |-> SaveCache(LoadDBIP(New, records).g).data] :
        records \in RefreshCSVs}

InitRefresh ==
    /\ g \in RefreshOld
    /\ boot = [phase |-> "PUBLISHED", op |-> "none", n |-> 0, old |-> g, new |-> g]
    /\ cacheFile = NoFile /\ csv = <<>>
    /\ cacheOfG = FALSE /\ ingested = FALSE
    /\ env = NoEnv
    /\ res = NoRes
    /\ GobIdle /\ TrieIdle /\ CIDRIdle /\ ReqIdle
    /\ handed = NoLookup

\* g.LoadCache(path) is called: the file is opened
BeginLoadCache ==
    /\ boot.phase = "PUBLISHED"
    /\ \E file \in RefreshCaches :
          /\ cacheFile' = file
          /\ boot' = [phase |-> "REFRESHING", op |-> "LoadCache", n |-> 0,
                      old |-> g, new |-> LoadCache(g, file).g]
    /\ UNCHANGED <<g, cacheOfG, ingested, csv, env, gobVars, trieVars, cidrVars, reqVars, handed, res>>

\* LoadCache reads one more unit of the file and assigns what it has decoded
StepLoadCache ==
    /\ boot.phase = "REFRESHING" /\ boot.op = "LoadCache"
    /\ boot.n < Len(cacheFile.data)
    /\ g' = LoadCache(boot.old, [exists |-> TRUE,
                                 data |-> SubSeq(cacheFile.data, 1, boot.n + 1)]).g
    /\ boot' = [boot EXCEPT !.n = boot.n + 1,
                            !.phase = IF boot.n + 1 = Len(cacheFile.data)
                                      THEN "REFRESHED" ELSE "REFRESHING"]
    /\ UNCHANGED <<cacheFile, cacheOfG, ingested, csv, env, gobVars, trieVars, cidrVars, reqVars,
                   handed, res>>

\* g.LoadDBIP(path) is called: the records are read
BeginLoadDBIP ==
    /\ boot.phase = "PUBLISHED"
    /\ \E records \in RefreshCSVs :
          /\ csv' = records
          /\ boot' = [phase |-> "REFRESHING", op |-> "LoadDBIP", n |-> 0,
                      old |-> g, new |-> LoadDBIP(g, records).g]
    /\ UNCHANGED <<g, cacheFile, cacheOfG, ingested, env, gobVars, trieVars, cidrVars, reqVars,
                   handed, res>>

\* LoadDBIP handles one more row: its labels are interned in g.stringTable,
\* its record goes to the tries under construction
StepLoadDBIP ==
    /\ boot.phase = "REFRESHING" /\ boot.op = "LoadDBIP"
    /\ boot.n < Len(csv)
    /\ g' = [g EXCEPT !.stringTable =
                 LoadDBIP(boot.old, SubSeq(csv, 1, boot.n + 1)).g.stringTable]
    /\ boot' = [boot EXCEPT !.n = boot.n + 1]
    /\ UNCHANGED <<cacheFile, cacheOfG, ingested, csv, env, gobVars, trieVars, cidrVars, reqVars,
                   handed, res>>

\* LoadDBIP assigns g.trieV4 and g.trieV6 under g.mu.Lock
SwapLoadDBIP ==
    /\ boot.phase = "REFRESHING" /\ boot.op = "LoadDBIP"
    /\ boot.n = Len(csv)
    /\ g' = LoadDBIP(boot.old, csv).g
    /\ boot' = [boot EXCEPT !.phase = "REFRESHED"]
    /\ UNCHANGED <<cacheFile, cacheOfG, ingested, csv, env, gobVars, trieVars, cidrVars, reqVars,
                   handed, res>>

\* g.Lookup(ip) on another goroutine
ConcurrentLookup ==
    /\ \E ip \in ValidIPs :
          res' = [op |-> "Lookup", arg |-> IPArg(ip), out |-> IPGeoLookup(g, ip)]
    /\ UNCHANGED <<geoVars, gobVars, trieVars, cidrVars, reqVars, bootVars, handed>>

NextRefresh ==
    \/ BeginLoadCache
    \/ StepLoadCache
    \/ BeginLoadDBIP
    \/ StepLoadDBIP
    \/ SwapLoadDBIP
    \/ ConcurrentLookup

SpecRefresh == InitRefresh /\ [][NextRefresh]_vars

\* C20: atomic refresh.  A Lookup that runs while LoadDBIP or LoadCache
\* refreshes the same IPGeo returns, for its address, the result of the
\* complete database before the refresh or the result of the complete
\* refreshed database.
C20_AtomicRefresh ==
    res.op = "Lookup" =>
        \/ res.out = IPGeoLookup(boot.old, res.arg.bits)
        \/ res.out = IPGeoLookup(boot.new, res.arg.bits)

\* what holds of the code: a refresh by LoadDBIP is atomic for lookups
LoadDBIPRefreshAtomic == boot.op = "LoadDBIP" => C20_AtomicRefresh

----------------------------------------------------------------------------
(* Properties of the trie walks (SpecTrie, SpecTrieAny) *)

\* the call was lookupTrie with an address shorter than maxBits
ShortLookup == res.op = "lookupTrie" /\ Len(res.arg) < maxBits

\* the records at the nodes along the first n bits of ip, nearest last
RECURSIVE BestAlong(_, _, _, _)
BestAlong(t, bits, i, best) ==
    IF SubSeq(bits, 1, i) \notin DOMAIN t THEN best
    ELSE LET b2 == IF t[SubSeq(bits, 1, i)] # NoRec THEN t[SubSeq(bits, 1, i)] ELSE best
         IN  IF i >= Len(bits) THEN b2 ELSE BestAlong(t, bits, i + 1, b2)

\* C24: lookupTrie called with an address that has fewer bits than maxBits
\* does not panic; it stops the descent and returns the best record found
\* along the bits the address has.
C24_ShortAddressNoPanic ==
    ShortLookup =>
        /\ ~res.out.panic
        /\ res.out.rec = BestAlong(root, res.arg, 0, NoRec)

\* what holds of the code: the call panics exactly when the trie has a node at
\* the end of the address's bits; otherwise it returns the best record
ShortAddressPanicsAtDepth ==
    ShortLookup =>
        /\ res.out.panic <=> res.arg \in DOMAIN root
        /\ ~res.out.panic => res.out.rec = BestAlong(root, res.arg, 0, NoRec)

\* C25: frame of insertion.  insertTrie(root, ip, n, record) changes the
\* lookupTrie result only for addresses whose first n bits are those of ip;
\* the record of every other node stays as it was.
C25_InsertFrame ==
    res.op = "insertTrie" =>
        /\ \A a \in FamilyIPs(maxBits) :
              PrefixOf(a, res.prefixLen) # PrefixOf(res.arg, res.prefixLen)
                  => lookupTrie(root, a, maxBits) = lookupTrie(res.before, a, maxBits)
        /\ \A p \in DOMAIN res.before :
              p # PrefixOf(res.arg, res.prefixLen)
                  => (p \in DOMAIN root /\ root[p] = res.before[p])

\* an insert below the root changed the result for an address under the
\* prefix while an address outside it has a record
C25_Witness ==
    /\ res.op = "insertTrie"
    /\ res.prefixLen >= 1 /\ res.prefixLen < maxBits
    /\ lookupTrie(root, res.arg, maxBits) # lookupTrie(res.before, res.arg, maxBits)
    /\ \E a \in FamilyIPs(maxBits) :
          /\ PrefixOf(a, res.prefixLen) # PrefixOf(res.arg, res.prefixLen)
          /\ lookupTrie(root, a, maxBits).rec # NoRec

----------------------------------------------------------------------------
(* What skipped rows leave behind (SpecIngest) *)

\* the rows LoadDBIP leaves with continue: too few columns, an address that
\* does not parse, a range computePrefixLen rejects
SkippedRow(row) ==
    \/ Len(row) < 8
    \/ ParseIP(row[1]) = NilIP \/ ParseIP(row[2]) = NilIP
    \/ computePrefixLen(ParseIP(row[1]), ParseIP(row[2])).kind = "err"

RECURSIVE WithoutSkipped(_)
WithoutSkipped(records) ==
    IF records = <<>> THEN <<>>
    ELSE IF SkippedRow(Head(records)) THEN WithoutSkipped(Tail(records))
    ELSE <<Head(records)>> \o WithoutSkipped(Tail(records))

\* C28: rows that LoadDBIP skips contribute nothing.  The StringTable after
\* ingesting a CSV equals the StringTable after ingesting the same CSV without
\* the skipped rows: a row rejected for an unparseable IP or a non-CIDR range
\* interns no strings.
C28_SkippedRowsInternNothing ==
    (res.op = "LoadDBIP" /\ ~res.out.panic) =>
        g.stringTable = LoadDBIP(New, WithoutSkipped(csv)).g.stringTable

\* what holds of the code: the skipped rows leave the tries as they are
SkippedRowsLeaveTries ==
    (res.op = "LoadDBIP" /\ ~res.out.panic) =>
        /\ Coords(g.trieV4) = Coords(LoadDBIP(New, WithoutSkipped(csv)).g.trieV4)
        /\ Coords(g.trieV6) = Coords(LoadDBIP(New, WithoutSkipped(csv)).g.trieV6)

----------------------------------------------------------------------------
(* What a failed LoadCache leaves behind (SpecCache) *)

LoadCacheFailed == res.op \in {"LoadCache", "LoadCacheNew"} /\ res.out.err # ""

\* C29: if LoadCache returns an error for any reason (missing file, bad
\* header, wrong version, truncated or corrupt string table or trie data), the
\* string table and both tries of the IPGeo are what they were before the call.
C29_FailedLoadLeavesIPGeo ==
    LoadCacheFailed => res.out.g = res.out.before

\* what holds of the code: the IPGeo is as before when the call fails before
\* it has read the string count
FailedBeforeTableLeavesIPGeo ==
    (LoadCacheFailed /\ res.out.read <= HeaderLen + 1) => res.out.g = res.out.before

----------------------------------------------------------------------------
(* GetIndex and GetString called from several goroutines on one            *)
(* StringTable (that of g).  A step is what a goroutine does between two    *)
(* operations on st.mu; st.mu admits readers together, and a writer alone.  *)

Goroutines == 1..MaxCallers

ConcLabels == {StrUS, StrNP, StrNepal}

Idle == [pc |-> "idle", s |-> EmptyStr, idx |-> 0]

\* a plausible slip: the map is not looked up again under the write lock
doubleCheckSkipped(st, s) == FALSE

\* GetIndex, after st.mu.Lock(): idx, exists := st.lookup[s]
doubleCheck(st, s) == s \in DOMAIN st.lookup

\* the table before the goroutines start: new, or with strings interned before
ConcTables ==
    {NewStringTable,
     GetIndex(GetIndex(NewStringTable, StrBagmati).st, StrKtm).st}

InitConc ==
    /\ g \in {[New EXCEPT !.stringTable = st] : st \in ConcTables}
    /\ callers = [mu |-> NoLock, run |-> [c \in Goroutines |-> Idle]]
    /\ handed = NoLookup
    /\ res = NoRes
    /\ cacheFile = NoFile /\ cacheOfG = FALSE /\ ingested = FALSE /\ csv = <<>>
    /\ filter = PackageFilter /\ middlewares = <<>> /\ headers = NoHeaders
    /\ GobIdle /\ TrieIdle /\ CIDRIdle /\ BootIdle

concRest == <<cacheFile, cacheOfG, ingested, csv, filter, middlewares, headers,
              gobVars, trieVars, cidrVars, bootVars>>

\* a GetIndex call returns idx to goroutine c
Return(c, s, idx, mu, path) ==
    /\ callers' = [mu |-> mu, run |-> [callers.run EXCEPT ![c] = Idle]]
    /\ handed' = IF s \in DOMAIN handed \/ s = EmptyStr THEN handed
                 ELSE [x \in DOMAIN handed \cup {s} |-> IF x = s THEN idx ELSE handed[x]]
    /\ res' = [op |-> "GetIndex", arg |-> s, out |-> idx, path |-> path]

\* goroutine c calls GetIndex(s); the empty string returns 0 at once
GetIndexCall(c) ==
    /\ callers.run[c].pc = "idle"
    /\ \E s \in ConcLabels \cup {EmptyStr} :
          IF s = EmptyStr
          THEN Return(c, s, 0, callers.mu, "empty") /\ UNCHANGED g
          ELSE /\ callers' = [callers EXCEPT !.run[c] = [pc |-> "RLock", s |-> s, idx |-> 0]]
               /\ UNCHANGED <<g, handed, res>>
    /\ UNCHANGED concRest

\* st.mu.RLock()
GetIndexRLock(c) ==
    /\ callers.run[c].pc = "RLock"
    /\ ~callers.mu.writer
    /\ callers' = [callers EXCEPT !.mu.readers = @ + 1, !.run[c].pc = "lookup"]
    /\ UNCHANGED <<g, handed, res, concRest>>

\* idx, exists := st.lookup[s]; st.mu.RUnlock(); return idx when it exists
GetIndexLookup(c) ==
    /\ callers.run[c].pc = "lookup"
    /\ LET s == callers.run[c].s
           mu == [callers.mu EXCEPT !.readers = @ - 1]
       IN  IF s \in DOMAIN g.stringTable.lookup
           THEN Return(c, s, g.stringTable.lookup[s], mu, "read lock")
           ELSE /\ callers' = [callers EXCEPT !.mu = mu, !.run[c].pc = "Lock"]
                /\ UNCHANGED <<handed, res>>
    /\ UNCHANGED <<g, concRest>>

\* st.mu.Lock()
GetIndexLock(c) ==
    /\ callers.run[c].pc = "Lock"
    /\ ~callers.mu.writer /\ callers.mu.readers = 0
    /\ callers' = [callers EXCEPT !.mu.writer = TRUE, !.run[c].pc = "check"]
    /\ UNCHANGED <<g, handed, res, concRest>>

\* the double-check after acquiring the write lock; the deferred Unlock runs
\* on return
GetIndexCheck(c) ==
    /\ callers.run[c].pc = "check"
    /\ LET s == callers.run[c].s IN
          IF doubleCheck(g.stringTable, s)
          THEN Return(c, s, g.stringTable.lookup[s], NoLock, "write lock")
          ELSE /\ callers' = [callers EXCEPT !.run[c].pc = "append"]
               /\ UNCHANGED <<handed, res>>
    /\ UNCHANGED <<g, concRest>>

\* idx := uint16(len(st.strings)); st.strings = append(st.strings, s)
GetIndexAppend(c) ==
    /\ callers.run[c].pc = "append"
    /\ g' = [g EXCEPT !.stringTable.strings = Append(@, callers.run[c].s)]
    /\ callers' = [callers EXCEPT !.run[c].pc = "store",
                                  !.run[c].idx = Uint16(Len(g.stringTable.strings))]
    /\ UNCHANGED <<handed, res, concRest>>

\* st.lookup[s] = idx; return idx (and the deferred Unlock)
GetIndexStore(c) ==
    /\ callers.run[c].pc = "store"
    /\ LET s == callers.run[c].s
           idx == callers.run[c].idx
       IN  /\ g' = [g EXCEPT !.stringTable.lookup =
                        [x \in DOMAIN @ \cup {s} |-> IF x = s THEN idx ELSE @[x]]]
           /\ Return(c, s, idx, NoLock, "appended")
    /\ UNCHANGED concRest

\* goroutine c calls GetString(idx): st.mu.RLock()
GetStringRLock(c) ==
    /\ callers.run[c].pc = "idle"
    /\ ~callers.mu.writer
    /\ \E idx \in 0..(IdxMod - 1) :
          callers' = [callers EXCEPT !.mu.readers = @ + 1,
                                     !.run[c] = [pc |-> "GetString", s |-> EmptyStr, idx |-> idx]]
    /\ UNCHANGED <<g, handed, res, concRest>>

\* the read of st.strings[idx], and the deferred RUnlock
GetStringRead(c) ==
    /\ callers.run[c].pc = "GetString"
    /\ callers' = [mu |-> [callers.mu EXCEPT !.readers = @ - 1],
                   run |-> [callers.run EXCEPT ![c] = Idle]]
    /\ res' = [op |-> "GetString", arg |-> callers.run[c].idx,
               out |-> GetString(g.stringTable, callers.run[c].idx),
               path |-> "read lock"]
    /\ UNCHANGED <<g, handed, concRest>>

NextConc ==
    \E c \in Goroutines :
        \/ GetIndexCall(c)
        \/ GetIndexRLock(c)
        \/ GetIndexLookup(c)
        \/ GetIndexLock(c)
        \/ GetIndexCheck(c)
        \/ GetIndexAppend(c)
        \/ GetIndexStore(c)
        \/ GetStringRLock(c)
        \/ GetStringRead(c)

SpecConc == InitConc /\ [][NextConc]_vars

\* each non-empty string is in st.strings at most once, and once when the map
\* has it
StoredOnce ==
    LET strs == g.stringTable.strings IN
    /\ \A i, j \in DOMAIN strs : (strs[i] = strs[j] /\ strs[i] # EmptyStr) => i = j
    /\ \A s \in DOMAIN g.stringTable.lookup : \E i \in DOMAIN strs : strs[i] = s

\* every GetIndex call returns for a string the index its first call returned
SameIndex ==
    (res.op = "GetIndex" /\ res.arg # EmptyStr) => res.out = handed[res.arg]

\* the entry of st.strings at an index that has been returned stays as it is
HandedStay ==
    \A s \in DOMAIN handed :
        /\ handed[s] < Len(g.stringTable.strings)
        /\ g.stringTable.strings'[handed[s] + 1] = g.stringTable.strings[handed[s] + 1]

\* C21: GetIndex is safe for concurrent callers.  Under every interleaving of
\* concurrent GetIndex and GetString calls each distinct non-empty string is
\* stored exactly once, all callers interning the same string get the same
\* index, and the string stored at an index already handed out never changes.
C21_ConcurrentInterning == [](StoredOnce /\ SameIndex) /\ [][HandedStay]_vars

\* two goroutines interned the same string at the same time: the second found
\* it in the map only after it had taken the write lock
C21_Witness ==
    /\ res.op = "GetIndex"
    /\ res.path = "write lock"
    /\ res.out = handed[res.arg]
    /\ \E c \in Goroutines : callers.run[c].pc # "idle"

----------------------------------------------------------------------------
(* Package ip: the Filter.  A Filter holds the single-IP entries (a map     *)
(* keyed by ip.String()), the subnet entries in the order they were added,  *)
(* the country entries and the default.  A text with a subnet mask is a     *)
(* record of the address text and the mask length.                          *)

CIDRText(t, n) == [fam |-> "cidr", ip |-> t, n |-> n]

\* the width in bits of the address family a text is written in
TextBits(t) == IF t.fam = "v4" THEN V4Bits ELSE V6Bits

\* net.IP.Mask with a mask of n ones: the address in the length of the mask
Mask(bits, n) == [i \in DOMAIN bits |-> IF i <= n THEN bits[i] ELSE 0]

\* net.ParseCIDR: the address, and the network with the masked address
ParseCIDR(t) ==
    IF t.fam # "cidr" \/ t.ip.fam = "bad" \/ t.n > TextBits(t.ip)
    THEN [err |-> TRUE, ip |-> NilIP, nt |-> [IP |-> NilIP, n |-> 0, total |-> 0]]
    ELSE [err |-> FALSE, ip |-> ParseIP(t.ip),
          nt |-> [IP |-> Mask(t.ip.bits, t.n), n |-> t.n, total |-> TextBits(t.ip)]]

\* (*net.IPNet).Contains: the network number and the mask are cut to 4 bytes
\* when the network address is an IPv4 address, the address is taken in its
\* 4-byte form when it has one, and the lengths must agree
Contains(nt, ip) ==
    LET nn == IF To4(nt.IP) # NilIP THEN To4(nt.IP) ELSE nt.IP
        full == [i \in 1..nt.total |-> IF i <= nt.n THEN 1 ELSE 0]
        m == IF nt.total = V6Bits /\ Len(nn) = V4Bits
             THEN SubSeq(full, V6Bits - V4Bits + 1, V6Bits) ELSE full
        x == IF To4(ip) # NilIP THEN To4(ip) ELSE ip
    IN  /\ Len(x) = Len(nn)
        /\ \A i \in DOMAIN x : m[i] = 1 => nn[i] = x[i]

\* ip.String(): one text for an IPv4 address in its 4-byte and 16-byte form
IPString(ip) == IF To4(ip) # NilIP THEN To4(ip) ELSE ip

SetKey(f, k, v) == [x \in DOMAIN f \cup {k} |-> IF x = k THEN v ELSE f[x]]

\* Filter.ToggleIP: whether the text was accepted, and the Filter after it
FilterToggleIP(f, str, allowed) ==
    LET c == ParseCIDR(str) IN
    IF ~c.err
    THEN IF c.nt.n = c.nt.total
         THEN [ok |-> TRUE, f |-> [f EXCEPT !.ips = SetKey(@, IPString(c.ip), allowed)]]
         ELSE IF \E i \in DOMAIN f.subnets : f.subnets[i].str = str
         THEN [ok |-> TRUE,
               f |-> [f EXCEPT !.subnets =
                         [i \in DOMAIN @ |-> IF @[i].str = str
                                             THEN [@[i] EXCEPT !.allowed = allowed]
                                             ELSE @[i]]]]
         ELSE [ok |-> TRUE,
               f |-> [f EXCEPT !.subnets =
                         Append(@, [str |-> str, ipNet |-> c.nt, allowed |-> allowed])]]
    ELSE IF str.fam # "cidr" /\ ParseIP(str) # NilIP
    THEN [ok |-> TRUE, f |-> [f EXCEPT !.ips = SetKey(@, IPString(ParseIP(str)), allowed)]]
    ELSE [ok |-> FALSE, f |-> f]

\* Filter.ToggleCountry
FilterToggleCountry(f, code, allowed) == [f EXCEPT !.codes = SetKey(@, code, allowed)]

\* the database geoip.CountryByIP answers from
FilterGeo == LoadDBIP(New, <<RowBlockV4>>).g

RECURSIVE scanSubnets(_, _, _, _)
\* the loop of NetAllowed over f.subnets: "allowed", "blocked" or "none"
scanSubnets(subnets, ip, i, blocked) ==
    IF i > Len(subnets) THEN (IF blocked THEN "blocked" ELSE "none")
    ELSE IF Contains(subnets[i].ipNet, ip)
    THEN IF subnets[i].allowed THEN "allowed"
         ELSE scanSubnets(subnets, ip, i + 1, TRUE)
    ELSE scanSubnets(subnets, ip, i + 1, blocked)

RECURSIVE scanFirstMatch(_, _, _, _)
\* a plausible slip: the first subnet that contains the address decides
scanFirstMatch(subnets, ip, i, blocked) ==
    IF i > Len(subnets) THEN "none"
    ELSE IF Contains(subnets[i].ipNet, ip)
    THEN (IF subnets[i].allowed THEN "allowed" ELSE "blocked")
    ELSE scanFirstMatch(subnets, ip, i + 1, blocked)

\* Filter.NetAllowed, with the decision after the subnets given
decide(f, ip, scan) ==
    IF ip = NilIP THEN FALSE
    ELSE IF IPString(ip) \in DOMAIN f.ips THEN f.ips[IPString(ip)]
    ELSE IF scan = "allowed" THEN TRUE
    ELSE IF scan = "blocked" THEN FALSE
    ELSE LET code == CountryByIP(FilterGeo, ip).s
         IN  IF code # EmptyStr /\ code \in DOMAIN f.codes THEN f.codes[code]
             ELSE f.defaultAllowed

NetAllowedFirstMatch(f, ip) == decide(f, ip, scanFirstMatch(f.subnets, ip, 1, FALSE))

\* Filter.NetAllowed
NetAllowed(f, ip) == decide(f, ip, scanSubnets(f.subnets, ip, 1, FALSE))

\* Filter.Allowed
Allowed(f, ipStr) == NetAllowed(f, IF ipStr.fam = "cidr" THEN NilIP ELSE ParseIP(ipStr))

\* the texts AllowIP / BlockIP / ToggleIP are called with: two texts of one
\* IPv4 network, all of IPv4, an IPv4 network written as an IPv4-mapped IPv6
\* network, a mask of the full width, an IPv6 network, plain addresses, no
\* address
FilterTexts ==
    {CIDRText(V4Text(Zeros(V4Bits)), 1),
     CIDRText(V4Text(Zeros(V4Bits - 1) \o <<1>>), 1),
     CIDRText(V4Text(Zeros(V4Bits)), 0),
     CIDRText(V6Text(v4InV6Prefix \o Zeros(V4Bits)), V6Bits - V4Bits),
     CIDRText(V4Text(Zeros(V4Bits)), V4Bits),
     CIDRText(V6Text(Zeros(V6Bits)), 1),
     V4Text(Zeros(V4Bits - 1) \o <<1>>),
     BadText}

\* the addresses NetAllowed is asked about
FilterIPs == {NilIP} \cup IPv4Len \cup {Zeros(V6Bits), v4InV6Prefix \o Zeros(V4Bits)}

Entries(f) == Len(f.subnets) + Cardinality(DOMAIN f.ips)

InitFilter ==
    /\ filter \in {[PackageFilter EXCEPT !.defaultAllowed = d] : d \in BOOLEAN}
    /\ middlewares = <<>> /\ headers = NoHeaders /\ callers = NoCallers
    /\ res = NoRes
    /\ GeoIdle /\ GobIdle /\ TrieIdle /\ CIDRIdle /\ BootIdle
    /\ handed = NoLookup

filterRest == <<middlewares, headers, callers, geoVars, gobVars, trieVars, cidrVars,
                bootVars, handed>>

\* AllowIP(str), BlockIP(str), ToggleIP(str, allowed)
CallToggleIP ==
    /\ \E str \in FilterTexts, allowed \in BOOLEAN :
          LET r == FilterToggleIP(filter, str, allowed) IN
          /\ Entries(r.f) <= MaxEntries
          /\ filter' = r.f
          /\ res' = [op |-> "ToggleIP", arg |-> NoArg, out |-> [panic |-> FALSE, ok |-> r.ok]]
    /\ UNCHANGED filterRest

\* AllowCountry(code), BlockCountry(code)
CallToggleCountry ==
    /\ \E allowed \in BOOLEAN :
          filter' = FilterToggleCountry(filter, StrNepal, allowed)
    /\ res' = [op |-> "ToggleCountry", arg |-> NoArg, out |-> [panic |-> FALSE, ok |-> TRUE]]
    /\ UNCHANGED filterRest

\* NetAllowed(ip)
CallNetAllowed ==
    /\ \E ip \in FilterIPs :
          res' = [op |-> "NetAllowed", arg |-> IPArg(ip),
                  out |-> [panic |-> FALSE, ok |-> NetAllowed(filter, ip)]]
    /\ UNCHANGED <<filter, filterRest>>

NextFilter == CallToggleIP \/ CallToggleCountry \/ CallNetAllowed

SpecFilter == InitFilter /\ [][NextFilter]_vars

\* the subnet entries of the filter that contain ip
Containing(ip) == {i \in DOMAIN filter.subnets : Contains(filter.subnets[i].ipNet, ip)}

\* C22: IP filter precedence.  For an IP that has no single-IP entry,
\* NetAllowed returns true when at least one subnet entry containing the IP is
\* allowed, whatever the number of containing subnets that are blocked and the
\* order of the entries; it returns false when containing subnets exist and
\* all of them are blocked.
C22_AllowSupersedesBlock ==
    (/\ res.op = "NetAllowed"
     /\ res.arg.bits # NilIP
     /\ IPString(res.arg.bits) \notin DOMAIN filter.ips)
    => LET c == Containing(res.arg.bits) IN
       /\ (\E i \in c : filter.subnets[i].allowed) => res.out.ok
       /\ (c # {} /\ \A i \in c : ~filter.subnets[i].allowed) => ~res.out.ok

\* the address is in a blocked subnet that was added before an allowed one,
\* the default is to block, and NetAllowed returned true
C22_Witness ==
    /\ res.op = "NetAllowed"
    /\ res.arg.bits # NilIP
    /\ IPString(res.arg.bits) \notin DOMAIN filter.ips
    /\ ~filter.defaultAllowed
    /\ \E i, j \in Containing(res.arg.bits) :
          i < j /\ ~filter.subnets[i].allowed /\ filter.subnets[j].allowed
    /\ res.out.ok

----------------------------------------------------------------------------
(* NewFilter and the middleware it returns.  NewFilter assigns the package  *)
(* variable filter; the middleware keeps opts and reads the package         *)
(* variable filter at every request.  middlewares holds the Config of every *)
(* middleware that was returned, in the order of the calls.                 *)

RECURSIVE toggleIPs(_, _, _, _)
\* for _, ip := range list { filter.ToggleIP(ip, allowed) }
toggleIPs(f, list, i, allowed) ==
    IF i > Len(list) THEN f
    ELSE toggleIPs(FilterToggleIP(f, list[i], allowed).f, list, i + 1, allowed)

RECURSIVE toggleCountries(_, _, _, _)
\* for _, code := range list { filter.ToggleCountry(code, allowed) }
toggleCountries(f, list, i, allowed) ==
    IF i > Len(list) THEN f
    ELSE toggleCountries(FilterToggleCountry(f, list[i], allowed), list, i + 1, allowed)

\* the Filter NewFilter builds from opts
newFilter(opts) ==
    LET f0 == [PackageFilter EXCEPT !.defaultAllowed = ~opts.BlockByDefault]
        f1 == toggleIPs(f0, opts.BlockedIPs, 1, FALSE)
        f2 == toggleIPs(f1, opts.AllowedIPs, 1, TRUE)
        f3 == toggleCountries(f2, opts.BlockedCountries, 1, FALSE)
    IN  toggleCountries(f3, opts.AllowedCountries, 1, TRUE)

\* "::1" and "127.0.0.1"
Loopback6 == V6Text(Zeros(V6Bits - 1) \o <<1>>)
Loopback4 == V4Text(Zeros(V4Bits - 1) \o <<1>>)

\* the decision of the middleware for remoteIP when it asks the Filter f
serve(f, remoteIP) ==
    \/ Allowed(f, remoteIP)
    \/ remoteIP = Loopback6 /\ Allowed(f, Loopback4)

Configs ==
    [BlockByDefault : BOOLEAN,
     BlockedIPs : {<<>>, <<CIDRText(V4Text(Zeros(V4Bits)), 0)>>},
     AllowedIPs : {<<>>, <<Loopback4>>},
     BlockedCountries : {<<>>, <<StrNepal>>},
     AllowedCountries : {<<>>, <<StrNepal>>}]

RemoteIPs == {V4Text(Zeros(V4Bits)), Loopback4, Loopback6, V6Text(Zeros(V6Bits)), BadText}

InitMiddleware ==
    /\ filter = PackageFilter
    /\ middlewares = <<>> /\ headers = NoHeaders /\ callers = NoCallers
    /\ res = NoRes
    /\ GeoIdle /\ GobIdle /\ TrieIdle /\ CIDRIdle /\ BootIdle
    /\ handed = NoLookup

middlewareRest == <<headers, callers, geoVars, gobVars, trieVars, cidrVars, bootVars, handed>>

\* mw := NewFilter(cfg)
CallNewFilter ==
    /\ Len(middlewares) < MaxFilters
    /\ \E cfg \in Configs :
          /\ filter' = newFilter(cfg)
          /\ middlewares' = Append(middlewares, cfg)
    /\ res' = [op |-> "NewFilter", arg |-> NoArg, out |-> [panic |-> FALSE, ok |-> TRUE]]
    /\ UNCHANGED middlewareRest

\* a request with remoteIP passes through the i-th middleware
ServeRequest ==
    /\ \E i \in DOMAIN middlewares, remoteIP \in RemoteIPs :
          res' = [op |-> "middleware", arg |-> remoteIP, mw |-> i,
                  out |-> [panic |-> FALSE, ok |-> serve(filter, remoteIP)]]
    /\ UNCHANGED <<filter, middlewares, middlewareRest>>

NextMiddleware == CallNewFilter \/ ServeRequest

SpecMiddleware == InitMiddleware /\ [][NextMiddleware]_vars

\* C30: One filter per NewFilter call.  Every middleware NewFilter(cfg)
\* returned allows or rejects a request as its own cfg says: a later call of
\* NewFilter with another cfg does not change what an earlier middleware does.
C30_OwnConfigDecides ==
    res.op = "middleware"
    => res.out.ok = serve(newFilter(middlewares[res.mw]), res.arg)

\* what holds: every middleware decides as the cfg of the last NewFilter says
MiddlewaresShareLastFilter ==
    res.op = "middleware"
    => res.out.ok = serve(newFilter(middlewares[Len(middlewares)]), res.arg)

----------------------------------------------------------------------------
(* Package geoip: FromHeader.  A header value is the sequence of its        *)
(* comma-separated parts after TrimSpace; a part is the text of an address, *)
(* a text that is no address ("unknown"), or a text that is no address and  *)
(* holds a dotted quad ("for=0.0.0.0").  headers holds the client IP, the   *)
(* callback (nil or not) and the value the callback gives for every name.   *)

EmptyText == [fam |-> "empty", bits |-> <<>>]

ForText(b) == [fam |-> "for=", bits |-> b]

\* possibleHeaders, cut to its first two names
possibleHeaders == <<"X-Original-Forwarded-For", "X-Forwarded-For">>

\* the blocks of init: localhost, a private IPv4 block, localhost IPv6, a
\* local IPv6 block
maxCidrBlocks ==
    <<CIDRText(V4Text(<<0, 1>> \o Zeros(V4Bits - 2)), 2),
      CIDRText(V4Text(<<1>> \o Zeros(V4Bits - 1)), 1),
      CIDRText(V6Text(Zeros(V6Bits - 1) \o <<1>>), V6Bits),
      CIDRText(V6Text(<<0, 1, 1>> \o Zeros(V6Bits - 3)), 3)>>

cidrs == [i \in DOMAIN maxCidrBlocks |-> ParseCIDR(maxCidrBlocks[i]).nt]

\* isPrivateAddress: the loopback and link-local tests are the tests of the
\* blocks of these addresses in cidrs
isPrivateAddress(address) ==
    LET ipAddress == ParseIP(address) IN
    IF ipAddress = NilIP THEN [private |-> FALSE, err |-> TRUE]
    ELSE [private |-> \E i \in DOMAIN cidrs : Contains(cidrs[i], ipAddress), err |-> FALSE]

\* fetchIPFromString.Find on one part: the first dotted quad in it
fetchIPFromString(t) ==
    IF t.fam = "v4" THEN t
    ELSE IF t.fam = "for=" THEN V4Text(t.bits)
    ELSE EmptyText

\* len of a text: "0.0.0.0", "::", "::1", "fc::", "unknown", "for=0.0.0.0"
TextLen(t) ==
    IF t.fam = "v4" THEN 7
    ELSE IF t.fam = "v6"
    THEN (IF t.bits = Zeros(V6Bits) THEN 2
          ELSE IF t.bits = Zeros(V6Bits - 1) \o <<1>> THEN 3 ELSE 4)
    ELSE IF t.fam = "for=" THEN 11
    ELSE IF t.fam = "empty" THEN 0 ELSE 7

RECURSIVE ValueLen(_)
\* len of a header value: its parts and the commas between them
ValueLen(v) ==
    IF v = <<>> THEN 0
    ELSE IF Len(v) = 1 THEN TextLen(v[1])
    ELSE TextLen(v[1]) + 1 + ValueLen(Tail(v))

RECURSIVE firstPublic(_, _)
\* the index of the first part that is an address and not private, or 0
firstPublic(v, i) ==
    IF i > Len(v) THEN 0
    ELSE LET r == isPrivateAddress(v[i])
         IN  IF ~r.private /\ ~r.err THEN i ELSE firstPublic(v, i + 1)

\* the end of FromHeader: the client IP, "0.0.0.0" for a short one
fromClientIP(clientIP) ==
    IF TextLen(clientIP) <= 3 THEN V4Text(Zeros(V4Bits)) ELSE fetchIPFromString(clientIP)

RECURSIVE fromHeaders(_, _, _)
\* the loop of FromHeader over possibleHeaders; headerValue is still nil when
\* no part of the value is public, and Find(nil) is nil
fromHeaders(clientIP, cb, k) ==
    IF k > Len(possibleHeaders) THEN fromClientIP(clientIP)
    ELSE LET possibleValue == cb[possibleHeaders[k]]
             i == firstPublic(possibleValue, 1)
         IN  IF ValueLen(possibleValue) > 3
             THEN (IF i # 0 THEN fetchIPFromString(possibleValue[i]) ELSE EmptyText)
             ELSE fromHeaders(clientIP, cb, k + 1)

\* FromHeader(clientIP, callback)
FromHeader(h) == IF h.nilcb THEN h.clientIP ELSE fromHeaders(h.clientIP, h.cb, 1)

HeaderParts ==
    {V4Text(Zeros(V4Bits)), V4Text(<<1>> \o Zeros(V4Bits - 1)),
     V6Text(<<0, 1>> \o Zeros(V6Bits - 2)), V6Text(Zeros(V6Bits - 1) \o <<1>>),
     BadText, ForText(Zeros(V4Bits))}

RECURSIVE SeqsUpTo(_, _)
SeqsUpTo(S, n) ==
    IF n = 0 THEN {<<>>}
    ELSE LET shorter == SeqsUpTo(S, n - 1)
         IN  shorter \cup {Append(q, x) : q \in shorter, x \in S}

HeaderValues == SeqsUpTo(HeaderParts, MaxTokens)

HeaderNames == {possibleHeaders[k] : k \in DOMAIN possibleHeaders}

ClientIPs == {V4Text(Zeros(V4Bits - 1) \o <<1>>), V6Text(Zeros(V6Bits - 1) \o <<1>>)}

\* a request: its client IP, the callback and the headers it reads
InitHeader ==
    /\ \E c \in ClientIPs, n \in BOOLEAN, cb \in [HeaderNames -> HeaderValues] :
          headers = [clientIP |-> c, nilcb |-> n, cb |-> cb]
    /\ filter = PackageFilter /\ middlewares = <<>> /\ callers = NoCallers
    /\ res = NoRes
    /\ GeoIdle /\ GobIdle /\ TrieIdle /\ CIDRIdle /\ BootIdle
    /\ handed = NoLookup

headerRest == <<filter, middlewares, callers, geoVars, gobVars, trieVars, cidrVars,
                bootVars, handed>>

\* FromHeader(clientIP, callback)
CallFromHeader ==
    /\ res' = [op |-> "FromHeader", arg |-> NoArg, out |-> FromHeader(headers)]
    /\ UNCHANGED <<headers, headerRest>>

NextHeader == CallFromHeader

SpecHeader == InitHeader /\ [][NextHeader]_vars

\* the first header of possibleHeaders whose value is longer than 3 bytes, or 0
RECURSIVE UsedHeader(_)
UsedHeader(k) ==
    IF k > Len(possibleHeaders) THEN 0
    ELSE IF ValueLen(headers.cb[possibleHeaders[k]]) > 3 THEN k ELSE UsedHeader(k + 1)

\* the parts of a value that are addresses
Addresses(v) == {i \in DOMAIN v : ParseIP(v[i]) # NilIP}

FromHeaderUsed == res.op = "FromHeader" /\ ~headers.nilcb /\ UsedHeader(1) # 0

\* C23: FromHeader with a non-nil callback returns the first public IP address
\* found in the header value; when the header value holds addresses and none
\* of them is public, it returns the first IP found in that header value and
\* not the empty string.
C23_FirstPublicElseFirstIP ==
    FromHeaderUsed
    => LET v == headers.cb[possibleHeaders[UsedHeader(1)]]
           i == firstPublic(v, 1)
       IN  /\ i # 0 => res.out = v[i]
           /\ (i = 0 /\ Addresses(v) # {})
              => res.out = v[CHOOSE a \in Addresses(v) : \A b \in Addresses(v) : a <= b]

\* what holds: a first public address written as a dotted quad is returned,
\* a first public address written otherwise gives the empty string, and so
\* does a value without a public address
FromHeaderDottedQuadOrEmpty ==
    FromHeaderUsed
    => LET v == headers.cb[possibleHeaders[UsedHeader(1)]]
           i == firstPublic(v, 1)
       IN  res.out = IF i # 0 /\ v[i].fam = "v4" THEN v[i] ELSE EmptyText

----------------------------------------------------------------------------
(* Package geoip (string table variant): init over several starts of the    *)
(* process.  The data directory outlives the process: the marker            *)
(* latest-ipdb.txt (the month it names, 0 when it is absent), the one cache *)
(* file ipgeo-cache-latest.bin and one CSV file per month.  Every step that *)
(* touches the network or writes a file has its outcomes.                   *)

Months == 1..MaxMonths

\* the CSV the server delivers for a month
MonthCSV(m) ==
    <<Row(V4Text(Zeros(V4Bits)), V4Text(<<0>> \o Ones(V4Bits - 1)),
          StrNP, StrNepal, EmptyStr, EmptyStr, Num(m), Num(m))>>

\* http.Get fails, the status is not 200, io.Copy fails, or the file arrives
DownloadOutcomes == {"ok", "refused", "status", "copy"}

\* SaveCache: written, os.Create fails, or a write fails after the version
SaveOutcomes == {"ok", "create", "write"}

\* os.WriteFile of the marker
MarkerOutcomes == {"ok", "fail"}

\* download(url, filepath): the error, and the file at filepath afterwards.
\* The file is created before the body is copied and is not removed.
download(net, m, old) ==
    IF net = "ok" THEN [err |-> FALSE, file |-> CSVOf(MonthCSV(m))]
    ELSE IF net = "copy" THEN [err |-> TRUE, file |-> BrokenCSV]
    ELSE [err |-> TRUE, file |-> old]

\* defaultGeo.SaveCache(cachePath) with its outcome: the cache file afterwards
saveCacheFile(gg, cf, save) ==
    IF save = "create" THEN cf
    ELSE IF save = "write"
    THEN [exists |-> TRUE, data |-> SubSeq(SaveCache(gg).data, 1, HeaderLen + 1)]
    ELSE [exists |-> TRUE, data |-> SaveCache(gg).data]

startupStop(phase, path, gg, e, cf, dl) ==
    [phase |-> phase, path |-> path, g |-> gg, env |-> e, cacheFile |-> cf, download |-> dl]

\* init after LoadDBIP returned ld: SaveCache, then the marker, whatever
\* SaveCache returned
startupRebuilt(e, cf, o, dl, ld) ==
    IF ld.panic THEN startupStop("FATAL", "rebuild", ld.g, e, cf, dl)
    ELSE startupStop("READY", "rebuild", ld.g,
                     [e EXCEPT !.marker = IF o.mark = "ok" THEN e.now ELSE @],
                     saveCacheFile(ld.g, cf, o.save), dl)

\* init with needUpdate set, after the download (if any) returned d
startupLoad(e, cf, o, g1, dl, d) ==
    IF d.err THEN startupStop("FATAL", "rebuild", g1, [e EXCEPT !.csv[e.now] = d.file], cf, dl)
    ELSE IF ~d.file.ok
    THEN startupStop("FATAL", "rebuild", g1, [e EXCEPT !.csv[e.now] = d.file], cf, dl)
    ELSE startupRebuilt([e EXCEPT !.csv[e.now] = d.file], cf, o, dl,
                        LoadDBIP(g1, d.file.records))

\* init with needUpdate set: the download when the CSV of the month is not on disk
startupUpdate(e, cf, o, g1) ==
    IF e.csv[e.now].exists
    THEN startupLoad(e, cf, o, g1, "none", [err |-> FALSE, file |-> e.csv[e.now]])
    ELSE startupLoad(e, cf, o, g1, o.net, download(o.net, e.now, e.csv[e.now]))

\* init after the marker was read; lc is what defaultGeo.LoadCache gives
startupCached(e, cf, o, lc) ==
    IF e.marker = e.now /\ lc.err = ""
    THEN startupStop("READY", "cache", lc.g, e, cf, "none")
    ELSE startupUpdate(e, cf, o, IF e.marker = e.now THEN lc.g ELSE New)

\* init in a new process, with the outcomes o of its downloads and writes
startup(e, cf, o) == startupCached(e, cf, o, LoadCache(New, cf))

InitStartups ==
    /\ env = [marker |-> 0, now |-> 1, csv |-> [m \in Months |-> NoCSV]]
    /\ cacheFile = NoFile
    /\ boot = [phase |-> "START", n |-> 0]
    /\ g = New /\ cacheOfG = FALSE /\ ingested = FALSE /\ csv = <<>>
    /\ res = NoRes
    /\ GobIdle /\ TrieIdle /\ CIDRIdle /\ ReqIdle
    /\ handed = NoLookup

startupsRest == <<cacheOfG, ingested, csv, gobVars, trieVars, cidrVars, reqVars, handed>>

\* the process starts and init runs to its end
Startup ==
    /\ boot.n < MaxStartups
    /\ \E o \in [net : DownloadOutcomes, save : SaveOutcomes, mark : MarkerOutcomes] :
       \E r \in {startup(env, cacheFile, o)} :
          /\ g' = r.g
          /\ env' = r.env
          /\ cacheFile' = r.cacheFile
          /\ boot' = [phase |-> r.phase, n |-> boot.n + 1, path |-> r.path,
                      download |-> r.download, save |-> o.save]
          /\ res' = [op |-> "init", arg |-> NoArg,
                     out |-> [panic |-> r.phase = "FATAL", err |-> ""]]
    /\ UNCHANGED startupsRest

\* the calendar month ends while no process runs
NextMonth ==
    /\ env.now < MaxMonths
    /\ env' = [env EXCEPT !.now = @ + 1]
    /\ boot' = [phase |-> "START", n |-> boot.n]
    /\ res' = NoRes
    /\ UNCHANGED <<g, cacheFile, startupsRest>>

NextStartups == Startup \/ NextMonth

SpecStartups == InitStartups /\ [][NextStartups]_vars

\* what Lookup answers for every address text
Served(gg) == [t \in IPTexts |-> Lookup(gg, t)]

\* C26: across any sequence of process startups, including ones in which
\* saving the cache failed, whenever init takes the cache path (the marker
\* equals the current year-month and LoadCache succeeds) the database it
\* serves is the one built from the current month's CSV, never a cache file
\* left over from an earlier month.
C26_CachePathServesCurrentMonth ==
    (boot.phase = "READY" /\ boot.path = "cache")
    => Served(g) = Served(LoadDBIP(New, MonthCSV(env.now)).g)

\* what holds: the cache path serves what the cache file holds
CachePathServesCacheFile ==
    (boot.phase = "READY" /\ boot.path = "cache") => g = LoadCache(New, cacheFile).g

\* C27: a download that fails at any point (connection error, non-200 status,
\* or an error while copying the body) leaves no CSV file at the target path.
C27_FailedDownloadLeavesNoFile ==
    (boot.phase = "FATAL" /\ boot.download \in {"refused", "status", "copy"})
    => ~env.csv[env.now].exists

\* what holds: no file is left when the failure comes before os.Create
EarlyFailureLeavesNoFile ==
    (boot.phase = "FATAL" /\ boot.download \in {"refused", "status"})
    => ~env.csv[env.now].exists

\* what holds: once the copy has failed, every later start in that month
\* finds the file, does not download, and ends in the panic of LoadDBIP
PartialFileIsNeverReplaced ==
    [][(env.csv[env.now] = BrokenCSV /\ env'.now = env.now /\ boot'.n # boot.n)
       => (boot'.phase = "FATAL" /\ boot'.download = "none"
           /\ env'.csv[env.now] = BrokenCSV)]_vars

====
